---- MODULE Spec2Model ----
(***************************************************************************)
(* Change detection (crates/bevy_ecs/src/change_detection.rs), the         *)
(* component value index (crates/bevy_ecs/src/indexing.rs) and the         *)
(* index-backed query filters (crates/bevy_ecs/src/index/query_by_index.rs,*)
(* examples/ecs/adjustable_query_filter.rs) as state machines, and the     *)
(* table-driven gcd of crates/bevy_math/src/gcd.rs.                        *)
(*                                                                         *)
(* The module holds several specifications over one set of variables; each *)
(* specification moves the variables of one component and leaves the       *)
(* others at their initial value.                                          *)
(***************************************************************************)
EXTENDS Integers, Sequences, FiniteSets, TLC

VARIABLES
    \* IndexBacking<T, F, I> (indexing.rs:48-58)
    forward,        \* HashMap<I::Index, EntityHashSet>: key -> set of entities
    reverse,        \* EntityHashMap<Entity, I::Index>: entity -> key
    last_this_run,  \* Option<Tick>
    \* what the last call of IndexBacking::update was given and returned
    upd,
    \* the world the Index system parameter reads
    change_tick,    \* World::change_tick
    comp,           \* Entity -> Option<[value, changed]>: component T and its changed tick
    removed,        \* the removal events of T, oldest first
    sys_last_run,   \* System -> Tick: SystemMeta::last_run
    sys_cursor,     \* System -> Nat: position of the system's RemovedComponents reader
    running,        \* Option<System>: the system that is running
    this_run,       \* Tick: SystemChangeTick::this_run of the running system
    got,            \* what the last read of the Index returned
    \* one component (or resource) instance and the systems that access it
    w_tick,         \* World::change_tick
    cell,           \* Option<[value, added, changed]>: the value and its change-cell pair
    meta_last_run,  \* System -> Tick: SystemMeta::last_run
    proxy,          \* Option<[sys, kind, mapped, last_run, this_run]>: the running system's Proxy
    obs,            \* the last operation: its name, argument, result and the cell before it
    w_last_check,   \* World::last_check_tick: the world tick of the last overflow scan
    hist,           \* history of the cell's world: what really happened, and budgets
    \* a world with component C, the Index<C> resource QueryByIndex reads and
    \* the Index<C> resource of examples/ecs/adjustable_query_filter.rs
    f_world,        \* Entity -> Option<C>: the component C of each entity
    markers,        \* Entity -> set of marker bits the entity carries
    mapping,        \* HashMap<C, usize> of the Index<C> that QueryByIndex reads
    ex_mapping,     \* HashMap<C, EntityHashSet> of the example's Index<C>
    fres,           \* the last filtered query: its value and what it yielded
    index_markers,  \* markers.len() of the Index<C> that QueryByIndex reads
    archetypes,     \* the archetypes with C the world has created (each a set of markers)
    system_param_state, \* Option<QueryByIndexState>: the cached query states of the system
    self_state,     \* QueryByIndex::state: Option<the query state the last at() composed>
    \* the last call of gcd_by_table::<N>(value)
    gcd_call,
    \* Graph<DIRECTED> (schedule/graph/graph.rs:15-18)
    DIRECTED,       \* the const parameter of the graph
    nodes,          \* IndexMap<NodeId, Vec<(NodeId, Direction)>>: node -> adjacency list
    edges,          \* IndexSet<(NodeId, NodeId)>
    \* a CombinatorSystem or PipeSystem over two inner systems (system/combinator.rs)
    combinator,     \* [kind, a, b]: the last-run tick of inner system a and of b
    combined_obs,   \* what the last step on the combined system was
    \* systems run in parallel by a scheduler, some with an Index<T> parameter
    task,           \* System -> "idle", "running", "between", "refreshed"
    seen            \* what the last read of the index through an Index<T> saw

backingVars == <<forward, reverse, last_this_run>>
worldVars == <<change_tick, comp, removed, sys_last_run, sys_cursor, running, this_run, got>>
cellVars == <<w_tick, cell, meta_last_run, proxy, obs>>
scanVars == <<w_last_check, hist>>
graphVars == <<DIRECTED, nodes, edges>>
comboVars == <<combinator, combined_obs>>
schedVars == <<task, seen>>
filterVars == <<f_world, markers, mapping, ex_mapping, fres,
                index_markers, archetypes, system_param_state, self_state>>
vars == <<forward, reverse, last_this_run, upd, change_tick, comp, removed,
          sys_last_run, sys_cursor, running, this_run, got,
          w_tick, cell, meta_last_run, proxy, obs, w_last_check, hist,
          f_world, markers, mapping, ex_mapping, fres,
          index_markers, archetypes, system_param_state, self_state, gcd_call,
          DIRECTED, nodes, edges, combinator, combined_obs, task, seen>>

\* What the actions on the index leave alone, and what the actions on the
\* change cell leave alone.
nonIndexVars == <<cellVars, scanVars, filterVars, gcd_call, graphVars, comboVars, schedVars>>
nonCellVars == <<backingVars, upd, worldVars, filterVars, gcd_call, graphVars, comboVars,
                 schedVars>>
nonProxyVars == <<nonCellVars, scanVars>>
nonFilterVars == <<backingVars, upd, worldVars, cellVars, scanVars, gcd_call, graphVars,
                   comboVars, schedVars>>
nonGcdVars == <<backingVars, upd, worldVars, cellVars, scanVars, filterVars, graphVars,
                comboVars, schedVars>>
nonGraphVars == <<backingVars, upd, worldVars, cellVars, scanVars, filterVars, gcd_call,
                  comboVars, schedVars>>
nonComboVars == <<backingVars, upd, worldVars, cell, meta_last_run, proxy, obs, hist,
                  filterVars, gcd_call, graphVars, schedVars>>
nonSchedVars == <<backingVars, upd, worldVars, cellVars, scanVars, filterVars, gcd_call,
                  graphVars, comboVars>>

-----------------------------------------------------------------------------
(* Option<T>: None is the empty sequence, Some(x) the sequence <<x>>. *)

None == <<>>
Some(x) == <<x>>

(* HashMap operations used by the code: insert, remove, get. *)

MapInsert(m, k, v) == [x \in (DOMAIN m) \cup {k} |-> IF x = k THEN v ELSE m[x]]
MapRemove(m, k) == [x \in (DOMAIN m) \ {k} |-> m[x]]
MapGet(m, k) == IF k \in DOMAIN m THEN Some(m[k]) ELSE None
EmptyMap == [x \in {} |-> {}]

-----------------------------------------------------------------------------
(* Tick: a u32.  The model checker's integers are 32-bit signed, so a u32 is
   held as two 16-bit limbs <<high, low>> and the arithmetic is the exact
   wrapping arithmetic of the code. *)

Limb == 2 ^ 16

U32(n) == <<n \div Limb, n % Limb>>
U32MAX == <<Limb - 1, Limb - 1>>

wrapping_sub(a, b) ==
    LET lo == a[2] - b[2]
        borrow == IF lo < 0 THEN 1 ELSE 0
    IN <<(a[1] - b[1] - borrow) % Limb, lo % Limb>>

wrapping_add(a, b) ==
    LET lo == a[2] + b[2]
        carry == IF lo >= Limb THEN 1 ELSE 0
    IN <<(a[1] + b[1] + carry) % Limb, lo % Limb>>

\* a < b and a <= b on u32
Lt(a, b) == a[1] < b[1] \/ (a[1] = b[1] /\ a[2] < b[2])
Le(a, b) == a = b \/ Lt(a, b)

\* change_detection.rs:19 and :24
CHECK_TICK_THRESHOLD == 518400000
MAX_CHANGE_AGE_Short == wrapping_sub(U32MAX, U32(CHECK_TICK_THRESHOLD - 1))
MAX_CHANGE_AGE == wrapping_sub(U32MAX, U32(2 * CHECK_TICK_THRESHOLD - 1))

\* Tick::relative_to(other): the wrapping difference self - other.
relative_to(self, other) == wrapping_sub(self, other)

Min(a, b) == IF Lt(b, a) THEN b ELSE a

\* Mutant of is_newer_than: the two ages are compared as they are.
is_newer_than_Unclamped(tick, last_run, run) ==
    Lt(relative_to(run, tick), relative_to(run, last_run))

\* Tick::is_newer_than(last_run, this_run): the tick is newer than last_run
\* iff (this_run - tick) < (this_run - last_run), with wraparound, both ages
\* clamped to MAX_CHANGE_AGE (tests::change_expiration,
\* change_detection.rs:650-654: a change and a last run that are both
\* MAX_CHANGE_AGE or more ticks old compare as MAX_CHANGE_AGE > MAX_CHANGE_AGE).
is_newer_than(tick, last_run, run) ==
    LET ticks_since_insert == Min(relative_to(run, tick), MAX_CHANGE_AGE)
        ticks_since_system == Min(relative_to(run, last_run), MAX_CHANGE_AGE)
    IN Lt(ticks_since_insert, ticks_since_system)

-----------------------------------------------------------------------------
(* Bounds of the index model. *)

NumEntities == 3
NumValues == 3

Entity == 1..NumEntities
Values == 0..(NumValues - 1)

\* The world of the Index system parameter: entities, component values,
\* systems holding an Index over the same IndexBacking, the last world tick
\* at which a system may start, and the number of removal events.
IdxEntities == 2
IdxValues == 2
NumSystems == 2
MaxTick == 4
MaxRemoved == 2

IdxEntity == 1..IdxEntities
IdxValue == 0..(IdxValues - 1)
Systems == 1..NumSystems

\* The world of one change cell: the values of the component, the systems
\* that access it, and the last world tick at which a system may start.
CellValues == 2
CellSystems == 1
CellMaxTick == 3

CellValue == 0..(CellValues - 1)
CellSystem == 1..CellSystems

\* The world of the overflow scan: how many times the world tick may jump
\* ahead (other systems running), and how many runs the observed systems get.
MaxJumps == 5
MaxRuns == 2

\* The system whose runs the world of the overflow scan observes; the other
\* systems of the world never run there.
TickSystem == {1}

\* The world of the index-backed query filters: entities, values of the
\* component C, and the most marker components the Index<C> allocates.
FilterEntities == 2
FilterValues == 3
NumMarkers == 2
\* The number of at() calls of one system run.
MaxCalls == 2

FilterEntity == 1..FilterEntities
FilterValue == 0..(FilterValues - 1)

\* The parallel schedule: systems with an Index<T> parameter over the one
\* IndexBacking resource, and systems that only read component T.
NumIndexUsers == 2
NumReaders == 2
IndexUser == 1..NumIndexUsers
ParSystem == 1..(NumIndexUsers + NumReaders)

\* The graphs: the node ids, and the longest adjacency list add_edge is
\* called on.
NumNodes == 3
MaxLinks == 3
NodeId == 1..NumNodes

\* The calls of gcd_by_table::<N>(value): the constants N and the values.
MaxN == 8
MaxGcdValue == 20

-----------------------------------------------------------------------------
(* indexing.rs *)

\* SimpleIndexer::index: the component's value, cloned, is the key.
index(input) == input

\* Mutants of RemoveFromOld: the entity stays in its old bucket; the bucket
\* is kept when it becomes empty.
RemoveFromOld_Keep(fwd, old, entity) == fwd

RemoveFromOld_NoPrune(fwd, old, entity) ==
    IF old # None /\ old[1] \in DOMAIN fwd
    THEN MapInsert(fwd, old[1], fwd[old[1]] \ {entity})
    ELSE fwd

\* Mutant of RemoveFromOld: the bucket of the old key is removed with all
\* its members.
RemoveFromOld_DropBucket(fwd, old, entity) ==
    IF old # None /\ old[1] \in DOMAIN fwd THEN MapRemove(fwd, old[1]) ELSE fwd

\* The forward map after the entity left the bucket of its old key: the
\* entity is removed from the set, and the bucket with it when it is empty.
RemoveFromOld(fwd, old, entity) ==
    IF old # None /\ old[1] \in DOMAIN fwd
    THEN LET set == fwd[old[1]] \ {entity}
         IN IF set = {} THEN MapRemove(fwd, old[1]) ELSE MapInsert(fwd, old[1], set)
    ELSE fwd

\* Mutant of EntryInsert: the bucket of the key is replaced by a bucket of
\* the entity alone.
EntryInsert_Replace(fwd, key, entity) == MapInsert(fwd, key, {entity})

\* self.forward.entry(value).or_default().insert(entity)
EntryInsert(fwd, key, entity) ==
    MapInsert(fwd, key, (IF key \in DOMAIN fwd THEN fwd[key] ELSE {}) \cup {entity})

\* Mutant of update: the entity enters the bucket of the new key before it
\* leaves the bucket of the old key.
update_InsertFirst(fwd, rev, entity, value) ==
    LET key == IF value # None THEN Some(index(value[1])) ELSE None
        old == MapGet(rev, entity)
        rev1 == IF key # None THEN MapInsert(rev, entity, key[1])
                              ELSE MapRemove(rev, entity)
        fwd1 == IF key # None THEN EntryInsert(fwd, key[1], entity) ELSE fwd
        fwd2 == RemoveFromOld(fwd1, old, entity)
    IN [forward |-> fwd2, reverse |-> rev1, old |-> old]

\* IndexBacking::update(entity, value): value is None (the component was
\* removed) or Some(component value).  The result is the backing after the
\* call and the value the call returns (the old key).
update(fwd, rev, entity, value) ==
    LET key == IF value # None THEN Some(index(value[1])) ELSE None
        old == MapGet(rev, entity)
        rev1 == IF key # None THEN MapInsert(rev, entity, key[1])
                              ELSE MapRemove(rev, entity)
        fwd1 == RemoveFromOld(fwd, old, entity)
        fwd2 == IF key # None THEN EntryInsert(fwd1, key[1], entity) ELSE fwd1
    IN [forward |-> fwd2, reverse |-> rev1, old |-> old]

\* Mutant of get: a key without a bucket yields every indexed entity.
get_OrAll(fwd, value) ==
    IF index(value) \in DOMAIN fwd THEN fwd[index(value)]
    ELSE UNION {fwd[k] : k \in DOMAIN fwd}

\* IndexBacking::get(value): the bucket of the value's key, or the empty set.
get(fwd, value) ==
    LET bucket == MapGet(fwd, index(value))
    IN IF bucket # None THEN bucket[1] ELSE {}

-----------------------------------------------------------------------------
(* Specification SpecBacking: IndexBacking::update called with any entity   *)
(* and any Option<&T>, in any order, on a backing that starts empty         *)
(* (IndexBacking::default).                                                 *)

NoUpdate == [entity |-> 0, value |-> None, old |-> None, before |-> EmptyMap,
             rev_before |-> EmptyMap]
NoRead == [kind |-> "none"]

\* IndexBacking::default
BackingDefault ==
    /\ forward = EmptyMap
    /\ reverse = EmptyMap
    /\ last_this_run = None

\* World::new, no entity spawned, every system initialized and none running.
\* The world's change tick starts at 1 and a system's last run at 0
\* (change_detection.rs:640-648).
WorldNew ==
    /\ change_tick = U32(1)
    /\ comp = [e \in IdxEntity |-> None]
    /\ removed = <<>>
    /\ sys_last_run = [s \in Systems |-> U32(0)]
    /\ sys_cursor = [s \in Systems |-> 0]
    /\ running = None
    /\ this_run = U32(0)
    /\ got = NoRead

NoObs == [op |-> "none"]

\* World::new for the world of one change cell: nothing inserted yet.
CellWorldNew ==
    /\ w_tick = U32(1)
    /\ cell = None
    /\ meta_last_run = [s \in CellSystem |-> U32(0)]
    /\ proxy = None
    /\ obs = NoObs
    /\ w_last_check = U32(0)
    /\ hist = [newer |-> [s \in TickSystem |-> FALSE],
               added_newer |-> [s \in TickSystem |-> FALSE],
               runs |-> [s \in TickSystem |-> 0],
               overflow |-> FALSE,
               jumps |-> 0,
               steps |-> 0]

NoQuery == [op |-> "none"]

\* World::new for the world of the index-backed filters: no entity has C,
\* both Index<C> resources are set up and empty (Index::setup,
\* adjustable_query_filter.rs:71-77).
FilterWorldNew ==
    /\ f_world = [e \in FilterEntity |-> None]
    /\ markers = [e \in FilterEntity |-> {}]
    /\ mapping = EmptyMap
    /\ ex_mapping = EmptyMap
    /\ fres = NoQuery
    /\ index_markers = 0
    /\ archetypes = {}
    /\ system_param_state = None
    /\ self_state = None
    /\ gcd_call = [op |-> "none"]

\* Graph::new: no node and no edge.
Graph_new ==
    /\ nodes = EmptyMap
    /\ edges = {}

\* No graph is used: an empty UnGraph.
GraphIdle ==
    /\ DIRECTED = FALSE
    /\ Graph_new

NoCombined == [op |-> "none", runs |-> 0, jumps |-> 0]

\* CombinatorSystem::new / PipeSystem::new of the given kind over two inner
\* systems that have not run: their last run is tick 0.
CombinatorNew(kind) ==
    /\ combinator = [kind |-> kind, a |-> U32(0), b |-> U32(0)]
    /\ combined_obs = NoCombined

\* No combined system is used.
CombinatorIdle == CombinatorNew("CombinatorSystem")

\* No system of the parallel schedule runs and nothing was read.
SchedIdle ==
    /\ task = [s \in ParSystem |-> "idle"]
    /\ seen = [op |-> "none"]

InitBacking ==
    /\ BackingDefault
    /\ upd = NoUpdate
    /\ WorldNew
    /\ CellWorldNew
    /\ FilterWorldNew
    /\ GraphIdle
    /\ CombinatorIdle
    /\ SchedIdle

BackingUpdate(entity, value) ==
    LET r == update(forward, reverse, entity, value)
    IN /\ forward' = r.forward
       /\ reverse' = r.reverse
       /\ upd' = [entity |-> entity, value |-> value, old |-> r.old, before |-> forward,
                  rev_before |-> reverse]
       /\ UNCHANGED <<last_this_run, worldVars, nonIndexVars>>

NextBacking ==
    \/ \E e \in Entity, v \in Values : BackingUpdate(e, Some(v))
    \/ \E e \in Entity : BackingUpdate(e, None)

SpecBacking == InitBacking /\ [][NextBacking]_vars

-----------------------------------------------------------------------------
(* Specification SpecIndex: a world with component T on some entities, and
   systems that each hold an Index<T> parameter over the one IndexBacking
   resource.  Between system runs the world inserts, mutates and removes T;
   a system run starts (BeginRun), reads the index any number of times (Get,
   Iter) and ends (EndRun). *)

\* All orders in which a finite set can be iterated.
Orders(S) ==
    {f \in [1..Cardinality(S) -> S] : \A i, j \in DOMAIN f : i # j => f[i] # f[j]}

\* Mutant of ApplyRemoved: the removal events are not applied.
ApplyRemoved_Skip(b, events) == b

\* for entity in self.removed.read() { self.index.update(entity, None) }
RECURSIVE ApplyRemoved(_, _)
ApplyRemoved(b, events) ==
    IF events = <<>> THEN b
    ELSE ApplyRemoved(update(b.forward, b.reverse, Head(events), None), Tail(events))

\* for (entity, component) in self.changed.iter() { self.index.update(entity, Some(component)) }
RECURSIVE ApplyChanged(_, _)
ApplyChanged(b, order) ==
    IF order = <<>> THEN b
    ELSE ApplyChanged(update(b.forward, b.reverse, Head(order),
                             Some(comp[Head(order)][1].value)), Tail(order))

\* Query<(Entity, Ref<T>), Changed<T>>: the entities that hold T with a
\* changed tick newer than the system's last run.
ChangedEntities(s) ==
    {e \in IdxEntity : comp[e] # None
                       /\ is_newer_than(comp[e][1].changed, sys_last_run[s], this_run)}

\* The removal events the system's reader has not read yet.
UnreadRemoved(s) == SubSeq(removed, sys_cursor[s] + 1, Len(removed))

\* Index::update_index_internal of the running system s.
update_index_internal(s) ==
    \E order \in Orders(ChangedEntities(s)) :
        LET b0 == [forward |-> forward, reverse |-> reverse]
            b1 == ApplyRemoved(b0, UnreadRemoved(s))
            b2 == ApplyChanged(b1, order)
        IN /\ forward' = b2.forward
           /\ reverse' = b2.reverse
           /\ sys_cursor' = [sys_cursor EXCEPT ![s] = Len(removed)]
           /\ last_this_run' = Some(this_run)

\* All orders in which the events of a sequence can be visited.
EventOrders(events) ==
    {[i \in 1..Len(events) |-> events[p[i]]] : p \in Orders(1..Len(events))}

\* The backings the two loops of update_index_internal can produce from the
\* backing b, over every order of the removal events and every order of
\* the changed entities.
RefreshOutcomes(b, events, changed) ==
    {ApplyChanged(ApplyRemoved(b, ev), order) :
        ev \in EventOrders(events), order \in Orders(changed)}

\* Mutant of ensure_updated: the index is never refreshed.
ensure_updated_Never(s) == UNCHANGED <<backingVars, sys_cursor>>

\* Index::ensure_updated of the running system s.
ensure_updated(s) ==
    IF last_this_run # Some(this_run)
    THEN update_index_internal(s)
    ELSE UNCHANGED <<backingVars, sys_cursor>>

\* World::entity_mut(e).insert(T(v)) on an entity without T: the component
\* is stamped with the world's change tick.
Insert(e, v) ==
    /\ running = None
    /\ comp[e] = None
    /\ comp' = [comp EXCEPT ![e] = Some([value |-> v, changed |-> change_tick])]
    /\ got' = NoRead
    /\ UNCHANGED <<backingVars, upd, change_tick, removed, sys_last_run, sys_cursor,
                   running, this_run, nonIndexVars>>

\* A mutable dereference of the entity's T (DerefMut stamps changed), the
\* value written may equal the old one.
Mutate(e, v) ==
    /\ running = None
    /\ comp[e] # None
    /\ comp' = [comp EXCEPT ![e] = Some([value |-> v, changed |-> change_tick])]
    /\ got' = NoRead
    /\ UNCHANGED <<backingVars, upd, change_tick, removed, sys_last_run, sys_cursor,
                   running, this_run, nonIndexVars>>

\* World::entity_mut(e).remove::<T>() or despawn: a removal event is sent.
Remove(e) ==
    /\ running = None
    /\ comp[e] # None
    /\ Len(removed) < MaxRemoved
    /\ comp' = [comp EXCEPT ![e] = None]
    /\ removed' = Append(removed, e)
    /\ got' = NoRead
    /\ UNCHANGED <<backingVars, upd, change_tick, sys_last_run, sys_cursor,
                   running, this_run, nonIndexVars>>

\* A system starts: this_run is the world's change tick, which is incremented.
BeginRun(s) ==
    /\ running = None
    /\ Lt(change_tick, U32(MaxTick))
    /\ running' = Some(s)
    /\ this_run' = change_tick
    /\ change_tick' = wrapping_add(change_tick, U32(1))
    /\ got' = NoRead
    /\ UNCHANGED <<backingVars, upd, comp, removed, sys_last_run, sys_cursor, nonIndexVars>>

\* What a read of the Index records beside its result: whether it is the
\* first read of the run, whether the index had been refreshed at this_run
\* when it was called, and the backing and the reader's cursor before it.
ReadOf(s) ==
    [first |-> (got = NoRead),
     fresh |-> (last_this_run = Some(this_run)),
     before |-> [forward |-> forward, reverse |-> reverse,
                 last_this_run |-> last_this_run, cursor |-> sys_cursor[s]]]

\* Index::get(value) in the running system.
Get(v) ==
    /\ running # None
    /\ ensure_updated(running[1])
    /\ got' = [kind |-> "get", value |-> v, entities |-> get(forward', v),
               read |-> ReadOf(running[1])]
    /\ UNCHANGED <<upd, change_tick, comp, removed, sys_last_run, running, this_run, nonIndexVars>>

\* Index::iter() in the running system.
Iter ==
    /\ running # None
    /\ ensure_updated(running[1])
    /\ got' = [kind |-> "iter", groups |-> forward', read |-> ReadOf(running[1])]
    /\ UNCHANGED <<upd, change_tick, comp, removed, sys_last_run, running, this_run, nonIndexVars>>

\* The system ends: its last run becomes this run.
EndRun ==
    /\ running # None
    /\ sys_last_run' = [sys_last_run EXCEPT ![running[1]] = this_run]
    /\ running' = None
    /\ got' = NoRead
    /\ UNCHANGED <<backingVars, upd, change_tick, comp, removed, sys_cursor, this_run, nonIndexVars>>

InitIndex ==
    /\ BackingDefault
    /\ upd = NoUpdate
    /\ WorldNew
    /\ CellWorldNew
    /\ FilterWorldNew
    /\ GraphIdle
    /\ CombinatorIdle
    /\ SchedIdle

NextIndex ==
    \/ \E e \in IdxEntity, v \in IdxValue : Insert(e, v)
    \/ \E e \in IdxEntity, v \in IdxValue : Mutate(e, v)
    \/ \E e \in IdxEntity : Remove(e)
    \/ \E s \in Systems : BeginRun(s)
    \/ \E v \in IdxValue : Get(v)
    \/ Iter
    \/ EndRun

SpecIndex == InitIndex /\ [][NextIndex]_vars

\* The entities that hold T with a value of the given key.
Holders(k) == {e \in IdxEntity : comp[e] # None /\ index(comp[e][1].value) = k}

\* The keys some entity holds.
HeldKeys == {index(comp[e][1].value) : e \in {x \in IdxEntity : comp[x] # None}}

-----------------------------------------------------------------------------
(* Specification SpecProxy: one component (or resource) instance with its
   change-cell pair, and systems that access it through a Proxy (Mut, ResMut,
   Ref).  Between system runs the world inserts, overwrites and removes the
   instance; a system run starts (ProxyNew), uses its proxy and ends
   (ProxyDrop). *)

\* Mutant of is_added: the changed tick is compared instead of the added
\* tick.
is_added_OfChanged(c, p) == is_newer_than(c.changed, p.last_run, p.this_run)

\* Mutant of is_changed: the changed tick and last_run are compared as
\* numbers.
is_changed_RawOrder(c, p) == Lt(p.last_run, c.changed)

\* DetectChanges::is_added, is_changed, last_changed of a proxy p over cell c.
is_added(c, p) == is_newer_than(c.added, p.last_run, p.this_run)
is_changed(c, p) == is_newer_than(c.changed, p.last_run, p.this_run)
last_changed(c, p) == c.changed

\* ComponentTicks::is_changed(last_run, this_run): the change check of the
\* change-cell pair itself (tests::map_mut, change_detection.rs:813).
ComponentTicks_is_changed(c, last_run, run) == is_newer_than(c.changed, last_run, run)

\* Mutants of set_changed: the changed tick is left as it is; the added
\* tick is stamped with the changed tick.
set_changed_Forgotten(c, p) == c
set_changed_AndAdded(c, p) == [c EXCEPT !.changed = p.this_run, !.added = p.this_run]

\* Mutant of set_changed: the changed tick is stamped with last_run.
set_changed_ToLastRun(c, p) == [c EXCEPT !.changed = p.last_run]

\* DetectChangesMut::set_changed: *self.ticks.changed = self.ticks.this_run
set_changed(c, p) == [c EXCEPT !.changed = p.this_run]

\* Mutant of set_last_changed: the tick is written to both cells.
set_last_changed_Both(c, p, tick) == [c EXCEPT !.changed = tick, !.added = tick]

\* DetectChangesMut::set_last_changed
set_last_changed(c, p, tick) == [c EXCEPT !.changed = tick]

\* Mutant of bypass_write: the write stamps the changed tick with the
\* proxy's this_run.
bypass_write_Stamped(c, value) ==
    [c EXCEPT !.value = value, !.changed = proxy[1].this_run]

\* Writing through the reference bypass_change_detection returns.
bypass_write(c, value) == [c EXCEPT !.value = value]

\* Mutant of deref_mut: the reference is handed out without set_changed().
deref_mut_Unstamped(c, p, write) ==
    IF write # None THEN [c EXCEPT !.value = write[1]] ELSE c

\* DerefMut::deref_mut, then the caller writes through the reference
\* (write = Some(v)) or does not (write = None).
deref_mut(c, p, write) ==
    LET c1 == set_changed(c, p)
    IN IF write # None THEN [c1 EXCEPT !.value = write[1]] ELSE c1

\* Mutant of set_if_neq: the value is assigned through deref_mut, whatever
\* it was.
set_if_neq_Always(c, p, value) == deref_mut(c, p, Some(value))

\* DetectChangesMut::set_if_neq
set_if_neq(c, p, value) ==
    IF c.value # value
    THEN set_changed(bypass_write(c, value), p)
    ELSE c

\* Mutant of replace_if_neq: the new value is returned, not the previous.
replace_if_neq_ReturnsNew(c, p, value) ==
    IF c.value # value
    THEN [cell |-> set_changed(bypass_write(c, value), p), ret |-> Some(value)]
    ELSE [cell |-> c, ret |-> None]

\* DetectChangesMut::replace_if_neq: the cell after the call and the value
\* the call returns.
replace_if_neq(c, p, value) ==
    IF c.value # value
    THEN [cell |-> set_changed(bypass_write(c, value), p), ret |-> Some(c.value)]
    ELSE [cell |-> c, ret |-> None]

\* Mutant of map_unchanged: the mapping stamps the changed tick.
map_unchanged_Stamped(c, p) ==
    [cell |-> [c EXCEPT !.changed = p.this_run], proxy |-> [p EXCEPT !.mapped = TRUE]]

\* Proxy::map_unchanged(f): the cell and the proxy after the call.  The new
\* proxy holds f(value) and the same ticks; f is the projection of
\* tests::map_mut, from Outer(x) to x, so what is written through the mapped
\* proxy is the component's value.
map_unchanged(c, p) == [cell |-> c, proxy |-> [p EXCEPT !.mapped = TRUE]]

\* impl From<Mut> for Ref: the read-only proxy is built from the value
\* reference and the four ticks of the read-write proxy, which is moved.
ref_from_mut(c, p) ==
    [cell |-> c,
     proxy |-> [sys |-> p.sys, kind |-> "Ref", mapped |-> p.mapped,
                last_run |-> p.last_run, this_run |-> p.this_run]]

\* impl From<NonSendMut> for Mut returns the Mut the NonSendMut wraps; a
\* ResMut is a Mut by its type alias and is moved as it is.
mut_from(c, p) ==
    [cell |-> c,
     proxy |-> [sys |-> p.sys, kind |-> "Mut", mapped |-> p.mapped,
                last_run |-> p.last_run, this_run |-> p.this_run]]

\* Mutant of reborrow: the reborrow marks the value as changed, as
\* into_inner does.
reborrow_Stamped(c, p) ==
    [cell |-> [c EXCEPT !.changed = p.this_run],
     proxy |-> [sys |-> p.sys, kind |-> "Mut", mapped |-> p.mapped,
                last_run |-> p.last_run, this_run |-> p.this_run]]

\* Proxy::reborrow: a Mut with a smaller lifetime over the same value and
\* tick references, with the same last_run and this_run.
reborrow(c, p) ==
    [cell |-> c,
     proxy |-> [sys |-> p.sys, kind |-> "Mut", mapped |-> p.mapped,
                last_run |-> p.last_run, this_run |-> p.this_run]]

\* The read-write variants of the proxy.
MutKinds == {"Mut", "ResMut", "NonSendMut"}

\* The record of an operation made through the running system's proxy.
Observe(op, arg, ret) ==
    [op |-> op, arg |-> arg, ret |-> ret, before |-> cell[1], proxy |-> proxy[1]]

HasMut == proxy # None /\ proxy[1].kind \in MutKinds /\ cell # None

\* World::insert_resource / insert of the component: a new instance is
\* stamped added and changed with the world's change tick; an existing one
\* is overwritten and stamped changed.
CellInsert(v) ==
    /\ proxy = None
    /\ cell' = IF cell = None
               THEN Some([value |-> v, added |-> w_tick, changed |-> w_tick])
               ELSE Some([cell[1] EXCEPT !.value = v, !.changed = w_tick])
    /\ obs' = [op |-> "insert", arg |-> v, fresh |-> (cell = None)]
    /\ UNCHANGED <<w_tick, meta_last_run, proxy, nonProxyVars>>

\* The instance is removed: its change-cell pair goes with it.
CellRemove ==
    /\ proxy = None
    /\ cell # None
    /\ cell' = None
    /\ obs' = [op |-> "remove"]
    /\ UNCHANGED <<w_tick, meta_last_run, proxy, nonProxyVars>>

\* A system starts and gets its proxy: Proxy::new(value, added, changed,
\* last_run, this_run) with the system's last run and the world's change
\* tick, which is incremented.
ProxyNew(s, kind) ==
    /\ proxy = None
    /\ cell # None
    /\ Lt(w_tick, U32(CellMaxTick))
    /\ proxy' = Some([sys |-> s, kind |-> kind, mapped |-> FALSE,
                      last_run |-> meta_last_run[s], this_run |-> w_tick])
    /\ w_tick' = wrapping_add(w_tick, U32(1))
    /\ obs' = [op |-> "new", sys |-> s]
    /\ UNCHANGED <<cell, meta_last_run, nonProxyVars>>

\* Proxy::new(value, added, changed, last_run, this_run) called with ticks
\* of the caller's choice (tests::mut_new), by code that is not a system:
\* the constructor stores the two reference ticks as they are given.
ProxyNewWith(kind, last_run, run) ==
    /\ proxy = None
    /\ cell # None
    /\ proxy' = Some([sys |-> 0, kind |-> kind, mapped |-> FALSE,
                      last_run |-> last_run, this_run |-> run])
    /\ obs' = [op |-> "new", sys |-> 0]
    /\ UNCHANGED <<w_tick, cell, meta_last_run, nonProxyVars>>

\* The proxy is dropped; when a system held it the system ends, and its last
\* run becomes this run.
ProxyDrop ==
    /\ proxy # None
    /\ meta_last_run' = IF proxy[1].sys \in CellSystem
                        THEN [meta_last_run EXCEPT ![proxy[1].sys] = proxy[1].this_run]
                        ELSE meta_last_run
    /\ proxy' = None
    /\ obs' = [op |-> "drop"]
    /\ UNCHANGED <<w_tick, cell, nonProxyVars>>

\* *proxy = v, or a mutable dereference that writes nothing.
DerefMut(write) ==
    /\ HasMut
    /\ cell' = Some(deref_mut(cell[1], proxy[1], write))
    /\ obs' = Observe("deref_mut", write, None)
    /\ UNCHANGED <<w_tick, meta_last_run, proxy, nonProxyVars>>

\* AsMut::as_mut is self.deref_mut().
AsMut(write) ==
    /\ HasMut
    /\ cell' = Some(deref_mut(cell[1], proxy[1], write))
    /\ obs' = Observe("as_mut", write, None)
    /\ UNCHANGED <<w_tick, meta_last_run, proxy, nonProxyVars>>

\* Proxy::into_inner of a Mut: set_changed, then the proxy is consumed and
\* the caller holds the bare reference.
IntoInner(write) ==
    /\ HasMut
    /\ cell' = Some(LET c1 == set_changed(cell[1], proxy[1])
                    IN IF write # None THEN [c1 EXCEPT !.value = write[1]] ELSE c1)
    /\ proxy' = Some([proxy[1] EXCEPT !.kind = "Consumed"])
    /\ obs' = Observe("into_inner", write, None)
    /\ UNCHANGED <<w_tick, meta_last_run, nonProxyVars>>

SetChanged ==
    /\ HasMut
    /\ cell' = Some(set_changed(cell[1], proxy[1]))
    /\ obs' = Observe("set_changed", None, None)
    /\ UNCHANGED <<w_tick, meta_last_run, proxy, nonProxyVars>>

SetLastChanged(tick) ==
    /\ HasMut
    /\ cell' = Some(set_last_changed(cell[1], proxy[1], tick))
    /\ obs' = Observe("set_last_changed", tick, None)
    /\ UNCHANGED <<w_tick, meta_last_run, proxy, nonProxyVars>>

\* *proxy.bypass_change_detection() = v
BypassWrite(v) ==
    /\ HasMut
    /\ cell' = Some(bypass_write(cell[1], v))
    /\ obs' = Observe("bypass_change_detection", v, None)
    /\ UNCHANGED <<w_tick, meta_last_run, proxy, nonProxyVars>>

SetIfNeq(v) ==
    /\ HasMut
    /\ cell' = Some(set_if_neq(cell[1], proxy[1], v))
    /\ obs' = Observe("set_if_neq", v, None)
    /\ UNCHANGED <<w_tick, meta_last_run, proxy, nonProxyVars>>

ReplaceIfNeq(v) ==
    /\ HasMut
    /\ LET r == replace_if_neq(cell[1], proxy[1], v)
       IN /\ cell' = Some(r.cell)
          /\ obs' = Observe("replace_if_neq", v, r.ret)
    /\ UNCHANGED <<w_tick, meta_last_run, proxy, nonProxyVars>>

\* let r: Ref<T> = m.into(): the mutable proxy is consumed, a read-only one
\* remains.
IntoRef ==
    /\ HasMut
    /\ LET r == ref_from_mut(cell[1], proxy[1])
       IN /\ cell' = Some(r.cell)
          /\ proxy' = Some(r.proxy)
    /\ obs' = Observe("into_ref", None, None)
    /\ UNCHANGED <<w_tick, meta_last_run, nonProxyVars>>

\* let m: Mut<T> = res_mut, or non_send_mut.into().
IntoMut ==
    /\ HasMut
    /\ proxy[1].kind \in {"ResMut", "NonSendMut"}
    /\ LET r == mut_from(cell[1], proxy[1])
       IN /\ cell' = Some(r.cell)
          /\ proxy' = Some(r.proxy)
    /\ obs' = Observe("into_mut", None, None)
    /\ UNCHANGED <<w_tick, meta_last_run, nonProxyVars>>

\* proxy.reborrow(): the caller goes on with the reborrowed Mut.
Reborrow ==
    /\ HasMut
    /\ LET r == reborrow(cell[1], proxy[1])
       IN /\ cell' = Some(r.cell)
          /\ proxy' = Some(r.proxy)
    /\ obs' = Observe("reborrow", None, None)
    /\ UNCHANGED <<w_tick, meta_last_run, nonProxyVars>>

\* proxy.map_unchanged(f), on a read-only or a read-write proxy.
MapUnchanged ==
    /\ proxy # None /\ cell # None
    /\ proxy[1].kind \in MutKinds \cup {"Ref"}
    /\ LET r == map_unchanged(cell[1], proxy[1])
       IN /\ cell' = Some(r.cell)
          /\ proxy' = Some(r.proxy)
    /\ obs' = Observe("map_unchanged", None, None)
    /\ UNCHANGED <<w_tick, meta_last_run, nonProxyVars>>

InitProxy ==
    /\ BackingDefault
    /\ upd = NoUpdate
    /\ WorldNew
    /\ CellWorldNew
    /\ FilterWorldNew
    /\ GraphIdle
    /\ CombinatorIdle
    /\ SchedIdle

CellTicks == {U32(n) : n \in 0..CellMaxTick}
OptValue == {None} \cup {Some(v) : v \in CellValue}

NextProxy ==
    \/ \E v \in CellValue : CellInsert(v)
    \/ CellRemove
    \/ \E s \in CellSystem, kind \in MutKinds \cup {"Ref"} : ProxyNew(s, kind)
    \/ \E kind \in {"Mut", "Ref"}, l \in CellTicks, t \in CellTicks : ProxyNewWith(kind, l, t)
    \/ ProxyDrop
    \/ \E w \in OptValue : DerefMut(w)
    \/ \E w \in OptValue : AsMut(w)
    \/ \E w \in OptValue : IntoInner(w)
    \/ SetChanged
    \/ \E t \in CellTicks : SetLastChanged(t)
    \/ \E v \in CellValue : BypassWrite(v)
    \/ \E v \in CellValue : SetIfNeq(v)
    \/ \E v \in CellValue : ReplaceIfNeq(v)
    \/ IntoRef
    \/ IntoMut
    \/ Reborrow
    \/ MapUnchanged

SpecProxy == InitProxy /\ [][NextProxy]_vars

-----------------------------------------------------------------------------
(* C4: set_if_neq(v) with v equal to the current value leaves the value and
   the changed tick (the whole cell, and so the answer of is_changed) as they
   were; with v different from the current value the value becomes v and the
   changed tick this_run. *)
C4_SetIfNeq ==
    obs.op = "set_if_neq" =>
        IF obs.arg = obs.before.value
        THEN /\ cell[1] = obs.before
             /\ is_changed(cell[1], obs.proxy) = is_changed(obs.before, obs.proxy)
        ELSE /\ cell[1].value = obs.arg
             /\ cell[1].changed = obs.proxy.this_run
             /\ cell[1].added = obs.before.added

\* set_if_neq with an equal value on a cell that is_changed() reports
\* unchanged (tests::set_if_neq, first call).
C4_WitnessEqual ==
    /\ obs.op = "set_if_neq" /\ obs.arg = obs.before.value
    /\ ~is_changed(obs.before, obs.proxy)

(* C5: after a mutable dereference (DerefMut, AsMut, into_inner of a Mut) the
   changed tick is this_run, and last_changed() returns this_run, whether or
   not the reference was then written through. *)
C5_DerefMutStamps ==
    obs.op \in {"deref_mut", "as_mut", "into_inner"} =>
        /\ cell[1].changed = obs.proxy.this_run
        /\ last_changed(cell[1], obs.proxy) = obs.proxy.this_run

\* A mutable dereference that wrote nothing, on a cell whose changed tick
\* was older than this_run.
C5_Witness ==
    /\ obs.op \in {"deref_mut", "as_mut", "into_inner"}
    /\ obs.arg = None
    /\ obs.before.changed # obs.proxy.this_run
    /\ cell[1].value = obs.before.value

(* C15: a write through bypass_change_detection() changes the value and
   leaves the changed and the added tick as they were, so is_changed() gives
   the running system, and every system at every later tick, the answer it
   would give had the value not been written. *)
C15_BypassKeepsTicks ==
    obs.op = "bypass_change_detection" =>
        /\ cell[1].value = obs.arg
        /\ cell[1].changed = obs.before.changed
        /\ cell[1].added = obs.before.added
        /\ is_changed(cell[1], obs.proxy) = is_changed(obs.before, obs.proxy)
        /\ \A s \in CellSystem, t \in CellTicks :
              LET later == [last_run |-> meta_last_run[s], this_run |-> t]
              IN is_changed(cell[1], later) = is_changed(obs.before, later)

\* A write of a different value through bypass_change_detection() on a cell
\* that is_changed() reports unchanged.
C15_Witness ==
    /\ obs.op = "bypass_change_detection"
    /\ obs.arg # obs.before.value
    /\ ~is_changed(cell[1], obs.proxy)

(* C16: replace_if_neq(v) returns Some(previous value), stores v and stamps
   changed with this_run when v differs from the current value; it returns
   None and leaves the cell as it was when v equals the current value. *)
C16_ReplaceIfNeq ==
    obs.op = "replace_if_neq" =>
        IF obs.arg # obs.before.value
        THEN /\ obs.ret = Some(obs.before.value)
             /\ cell[1].value = obs.arg
             /\ cell[1].changed = obs.proxy.this_run
             /\ cell[1].added = obs.before.added
        ELSE /\ obs.ret = None
             /\ cell[1] = obs.before

\* replace_if_neq with a different value on a cell whose changed tick was
\* older than this_run.
C16_Witness ==
    /\ obs.op = "replace_if_neq"
    /\ obs.ret # None
    /\ obs.before.changed # obs.proxy.this_run

(* C17: map_unchanged leaves the cell (value, added, changed) and the
   reference ticks of the proxy as they were, so is_added() and is_changed()
   of the mapped proxy are those of the original; a mutable dereference
   through a mapped proxy stamps the component's changed tick with
   this_run. *)
C17_MapUnchanged ==
    /\ obs.op = "map_unchanged" =>
          /\ cell[1] = obs.before
          /\ proxy[1].mapped
          /\ proxy[1].last_run = obs.proxy.last_run
          /\ proxy[1].this_run = obs.proxy.this_run
          /\ is_added(cell[1], proxy[1]) = is_added(obs.before, obs.proxy)
          /\ is_changed(cell[1], proxy[1]) = is_changed(obs.before, obs.proxy)
    /\ (obs.op \in {"deref_mut", "as_mut", "into_inner"} /\ obs.proxy.mapped) =>
          cell[1].changed = obs.proxy.this_run

\* A write through a mapped proxy over a cell whose changed tick was older
\* than this_run (tests::map_mut).
C17_Witness ==
    /\ obs.op = "deref_mut" /\ obs.proxy.mapped /\ obs.arg # None
    /\ obs.before.changed # obs.proxy.this_run
    /\ ~is_changed(obs.before, obs.proxy)

(* C20: set_changed() sets the changed tick to this_run and leaves the value
   and the added tick as they were; called on a cell whose changed tick is
   this_run already (a second call in the run) it leaves the cell as it
   was, and one more call would leave it so again. *)
C20_SetChangedIdempotent ==
    obs.op = "set_changed" =>
        /\ cell[1].changed = obs.proxy.this_run
        /\ cell[1].value = obs.before.value
        /\ cell[1].added = obs.before.added
        /\ obs.before.changed = obs.proxy.this_run => cell[1] = obs.before
        /\ set_changed(cell[1], obs.proxy) = cell[1]

\* A set_changed() on a cell that is stamped with this_run already and was
\* added at an earlier tick.
C20_Witness ==
    /\ obs.op = "set_changed"
    /\ obs.before.changed = obs.proxy.this_run
    /\ obs.before.added # obs.proxy.this_run

(* C21 as stated: after a mutable dereference or a set_changed() through a
   read-write proxy, is_changed() of the proxy is true and so is the change
   check of the change-cell pair for the proxy's last_run and this_run,
   whatever the two reference ticks of the proxy are. *)
C21_StampedIsChanged ==
    obs.op \in {"deref_mut", "as_mut", "set_changed"} =>
        /\ is_changed(cell[1], obs.proxy)
        /\ ComponentTicks_is_changed(cell[1], obs.proxy.last_run, obs.proxy.this_run)

(* C21 amended: the same for a proxy whose last_run is not its this_run
   (Proxy::new documents last_run as a tick occurring before this_run and
   does not check it). *)
C21_StampedIsChangedAfterLastRun ==
    (obs.op \in {"deref_mut", "as_mut", "set_changed"}
        /\ obs.proxy.last_run # obs.proxy.this_run) =>
        /\ is_changed(cell[1], obs.proxy)
        /\ ComponentTicks_is_changed(cell[1], obs.proxy.last_run, obs.proxy.this_run)

\* A set_changed() on a cell the proxy reported unchanged, the proxy's
\* this_run being numerically below its last_run.
C21_Witness ==
    /\ obs.op = "set_changed"
    /\ ~is_changed(obs.before, obs.proxy)
    /\ Lt(obs.proxy.this_run, obs.proxy.last_run)
    /\ is_changed(cell[1], obs.proxy)

(* C22: a conversion between proxy variants (ResMut or NonSendMut to Mut,
   Mut to Ref, reborrow) leaves the value, the added and the changed tick as
   they were and gives the new proxy the last_run and this_run of the old
   one; and from the downgrade to Ref until the proxy is dropped the proxy
   stays read-only and the cell is not written. *)
C22_ConversionsPreserve ==
    /\ [](obs.op \in {"into_mut", "into_ref", "reborrow"} =>
            /\ cell[1] = obs.before
            /\ proxy[1].last_run = obs.proxy.last_run
            /\ proxy[1].this_run = obs.proxy.this_run
            /\ proxy[1].kind = (IF obs.op = "into_ref" THEN "Ref" ELSE "Mut")
            /\ is_changed(cell[1], proxy[1]) = is_changed(obs.before, obs.proxy)
            /\ is_added(cell[1], proxy[1]) = is_added(obs.before, obs.proxy))
    /\ [][(proxy # None /\ proxy[1].kind = "Ref" /\ proxy' # None) =>
            (proxy'[1].kind = "Ref" /\ cell' = cell)]_vars

\* The Mut of a system downgraded to Ref, over a cell the proxy reports
\* unchanged.
C22_Witness ==
    /\ obs.op = "into_ref"
    /\ obs.proxy.kind = "Mut" /\ obs.proxy.sys # 0
    /\ proxy[1].kind = "Ref"
    /\ ~is_changed(cell[1], proxy[1])

(* C23: the insertion of a new instance stamps added (and changed) with the
   world's change tick; every operation made through a proxy leaves the
   added tick as it was; and every mutation that goes through change
   detection (a mutable dereference, into_inner, set_if_neq or
   replace_if_neq of a different value) stamps changed with this_run. *)
C23_AddedNeverRestamped ==
    /\ (obs.op = "insert" /\ obs.fresh) =>
          (cell[1].added = w_tick /\ cell[1].changed = w_tick)
    /\ obs.op \in {"deref_mut", "as_mut", "set_changed", "set_last_changed",
                   "bypass_change_detection", "set_if_neq", "replace_if_neq",
                   "into_inner", "map_unchanged", "reborrow", "into_ref", "into_mut"} =>
          cell[1].added = obs.before.added
    /\ obs.op \in {"deref_mut", "as_mut", "into_inner"} =>
          cell[1].changed = obs.proxy.this_run
    /\ (obs.op \in {"set_if_neq", "replace_if_neq"} /\ obs.arg # obs.before.value) =>
          cell[1].changed = obs.proxy.this_run

\* set_last_changed with a tick that is not the added tick, in a run later
\* than the insertion.
C23_Witness ==
    /\ obs.op = "set_last_changed"
    /\ obs.arg # obs.before.added
    /\ cell[1].changed = obs.arg
    /\ cell[1].added # obs.proxy.this_run

-----------------------------------------------------------------------------
(* Specification SpecTicks: one component instance, the systems that read
   it, and the world tick advancing past MAX_CHANGE_AGE and past u32::MAX.
   A system run is one step (TRun); the world tick also jumps ahead by the
   runs of systems that are not modelled (TAdvance).  The overflow scan
   (TScan) may run at any time and runs at least every 2 * N - 1 ticks,
   N = CHECK_TICK_THRESHOLD (change_detection.rs:11-17). *)

\* Mutant of check_tick: a tick older than MAX_CHANGE_AGE is set to the
\* current tick.
check_tick_ToCurrent(tick, current) ==
    IF Lt(MAX_CHANGE_AGE, relative_to(current, tick))
    THEN current
    ELSE tick

\* Tick::check_tick(change_tick): a tick older than MAX_CHANGE_AGE is
\* clamped so that its age becomes MAX_CHANGE_AGE.
check_tick(tick, current) ==
    IF Lt(MAX_CHANGE_AGE, relative_to(current, tick))
    THEN relative_to(current, MAX_CHANGE_AGE)
    ELSE tick

\* Mutant of ScanTick: the scan measures ages from the tick of the last scan.
ScanTick_LastCheck == w_last_check

\* The tick World::check_change_ticks measures ages from: the world's
\* current change tick.
ScanTick == w_tick

\* Ticks since the last scan.
Elapsed == relative_to(w_tick, w_last_check)

\* The world may tick k more times before the next scan is due.
CanAdvance(k) == Le(wrapping_add(Elapsed, U32(k)), U32(2 * CHECK_TICK_THRESHOLD - 1))

\* Every tick the world stores.
StoredTicks ==
    {meta_last_run[s] : s \in CellSystem}
        \cup (IF cell # None THEN {cell[1].added, cell[1].changed} ELSE {})

\* The age of the tick, k ticks from now, does not fit a u32.
AgeOverflows(tick, k) ==
    LET age == relative_to(w_tick, tick)
        lo == age[2] + U32(k)[2]
        carry == IF lo >= Limb THEN 1 ELSE 0
    IN age[1] + U32(k)[1] + carry >= Limb

Advanced(k) ==
    [hist EXCEPT !.overflow = @ \/ \E t \in StoredTicks : AgeOverflows(t, k)]

AllSystems(b) == [s \in TickSystem |-> b]

\* The component is spawned: added and changed are the world's change tick.
TSpawn ==
    /\ cell = None
    /\ cell' = Some([value |-> 0, added |-> w_tick, changed |-> w_tick])
    /\ hist' = [hist EXCEPT !.newer = AllSystems(TRUE), !.added_newer = AllSystems(TRUE),
                            !.runs = [s \in TickSystem |-> 0]]
    /\ obs' = [op |-> "spawn"]
    /\ UNCHANGED <<w_tick, meta_last_run, proxy, w_last_check, nonCellVars>>

\* The component is mutably dereferenced through the world: changed is the
\* world's change tick.
TTouch ==
    /\ cell # None
    /\ cell' = Some([cell[1] EXCEPT !.changed = w_tick])
    /\ hist' = [hist EXCEPT !.newer = AllSystems(TRUE)]
    /\ obs' = [op |-> "touch"]
    /\ UNCHANGED <<w_tick, meta_last_run, proxy, w_last_check, nonCellVars>>

\* System s runs: it reads is_added() and is_changed() of its proxy first,
\* then mutably dereferences it or not; its last run becomes this run.
TRun(s, touch) ==
    /\ CanAdvance(1)
    /\ hist.steps < MaxRuns
    /\ LET p == [last_run |-> meta_last_run[s], this_run |-> w_tick]
           present == cell # None
       IN /\ obs' = [op |-> "run", sys |-> s, present |-> present,
                     is_added |-> present /\ is_added(cell[1], p),
                     is_changed |-> present /\ is_changed(cell[1], p),
                     run |-> IF hist.runs[s] = 0 THEN 1 ELSE 2,
                     newer |-> hist.newer[s],
                     age |-> IF present THEN relative_to(w_tick, cell[1].added) ELSE U32(0),
                     before |-> cell, proxy |-> p]
          /\ cell' = IF present /\ touch THEN Some(set_changed(cell[1], p)) ELSE cell
          /\ hist' = [Advanced(1) EXCEPT
                        !.newer = IF present /\ touch
                                  THEN [AllSystems(TRUE) EXCEPT ![s] = FALSE]
                                  ELSE [hist.newer EXCEPT ![s] = FALSE],
                        !.added_newer = [hist.added_newer EXCEPT ![s] = FALSE],
                        !.runs = IF present THEN [hist.runs EXCEPT ![s] = IF @ = 0 THEN 1 ELSE 2]
                                 ELSE hist.runs,
                        !.steps = @ + 1]
    /\ meta_last_run' = [meta_last_run EXCEPT ![s] = w_tick]
    /\ w_tick' = wrapping_add(w_tick, U32(1))
    /\ UNCHANGED <<proxy, w_last_check, nonCellVars>>

\* Systems that are not modelled run k times: the world ticks k times.
TAdvance(k) ==
    /\ CanAdvance(k)
    /\ hist.jumps < MaxJumps
    /\ w_tick' = wrapping_add(w_tick, U32(k))
    /\ hist' = [Advanced(k) EXCEPT !.jumps = @ + 1]
    /\ obs' = [op |-> "advance"]
    /\ UNCHANGED <<cell, meta_last_run, proxy, w_last_check, nonCellVars>>

\* World::check_change_ticks: every stored tick is checked against the
\* current tick.
TScan ==
    /\ cell' = IF cell = None THEN None
               ELSE Some([cell[1] EXCEPT !.added = check_tick(@, ScanTick),
                                         !.changed = check_tick(@, ScanTick)])
    /\ meta_last_run' = [s \in CellSystem |-> check_tick(meta_last_run[s], ScanTick)]
    /\ w_last_check' = w_tick
    /\ obs' = [op |-> "scan", tick |-> w_tick, cell |-> cell, last_run |-> meta_last_run,
               again |-> (obs.op = "scan")]
    /\ UNCHANGED <<w_tick, proxy, hist, nonCellVars>>

Jumps == {CHECK_TICK_THRESHOLD, 2 * CHECK_TICK_THRESHOLD - 1}

InitTicks ==
    /\ BackingDefault
    /\ upd = NoUpdate
    /\ WorldNew
    /\ CellWorldNew
    /\ FilterWorldNew
    /\ GraphIdle
    /\ CombinatorIdle
    /\ SchedIdle

NextTicks ==
    \/ TSpawn
    \/ TTouch
    \/ \E s \in TickSystem, touch \in BOOLEAN : TRun(s, touch)
    \/ \E k \in Jumps : TAdvance(k)
    \/ TScan

SpecTicks == InitTicks /\ [][NextTicks]_vars

\* The age of a stored tick at the world's current tick.
Age(tick) == relative_to(w_tick, tick)

(* C6 as stated: in the first run of a system after the insertion is_added()
   and is_changed() are both true; in a later run of the same system
   is_added() is false, and is_changed() is false unless the changed tick was
   stamped after the system's previous run. *)
C6_AddedThenNot ==
    (obs.op = "run" /\ obs.present) =>
        /\ obs.run = 1 => (obs.is_added /\ obs.is_changed)
        /\ obs.run = 2 => (~obs.is_added /\ (~obs.newer => ~obs.is_changed))

(* C6 amended: the same, the first run being fewer than MAX_CHANGE_AGE ticks
   after the insertion. *)
C6_AddedThenNotWithinMaxAge ==
    (obs.op = "run" /\ obs.present) =>
        /\ (obs.run = 1 /\ Lt(obs.age, MAX_CHANGE_AGE)) => (obs.is_added /\ obs.is_changed)
        /\ obs.run = 2 => (~obs.is_added /\ (~obs.newer => ~obs.is_changed))

\* The second run of the system after the insertion, with no stamp since
\* its first run, after the world tick has wrapped past zero.
C6_Witness ==
    /\ obs.op = "run" /\ obs.present /\ obs.run = 2 /\ ~obs.newer
    /\ ~obs.is_added /\ ~obs.is_changed
    /\ Lt(w_tick, cell[1].added)

(* C18: a system run that finds the age of the change (of the addition) at
   MAX_CHANGE_AGE or more gets is_changed() (is_added()) false; and an age
   that has reached MAX_CHANGE_AGE stays at MAX_CHANGE_AGE or more through
   every step that does not stamp the tick again, scans and wraparound of
   the world tick included, so every later run gets false as well. *)
C18_Expired ==
    /\ []((obs.op = "run" /\ obs.present) =>
            /\ Le(MAX_CHANGE_AGE, relative_to(obs.proxy.this_run, obs.before[1].changed))
                  => ~obs.is_changed
            /\ Le(MAX_CHANGE_AGE, relative_to(obs.proxy.this_run, obs.before[1].added))
                  => ~obs.is_added)
    /\ [][(cell # None /\ cell' # None) =>
            /\ (Le(MAX_CHANGE_AGE, relative_to(w_tick, cell[1].changed))
                    /\ cell'[1].changed # w_tick)
                  => Le(MAX_CHANGE_AGE, relative_to(w_tick', cell'[1].changed))
            /\ Le(MAX_CHANGE_AGE, relative_to(w_tick, cell[1].added))
                  => Le(MAX_CHANGE_AGE, relative_to(w_tick', cell'[1].added))]_vars

\* The second run of a system on a component whose change and addition
\* have expired, after the world tick has wrapped past zero.
C18_Witness ==
    /\ obs.op = "run" /\ obs.present /\ obs.run = 2
    /\ Le(MAX_CHANGE_AGE, relative_to(obs.proxy.this_run, obs.before[1].changed))
    /\ Lt(obs.proxy.this_run, obs.proxy.last_run)
    /\ ~obs.is_changed /\ ~obs.is_added

(* C19: a change stamped after the system's last run is reported by
   is_changed() when this_run is fewer than MAX_CHANGE_AGE ticks after
   last_run, also when this_run and the changed tick have wrapped past zero
   and last_run has not. *)
C19_NoFalseNegative ==
    (obs.op = "run" /\ obs.present /\ obs.newer
        /\ Lt(relative_to(obs.proxy.this_run, obs.proxy.last_run), MAX_CHANGE_AGE))
        => obs.is_changed

\* A run after the world tick wrapped: the changed tick and this_run are
\* numerically below last_run.
C19_Witness ==
    /\ obs.op = "run" /\ obs.present /\ obs.newer /\ obs.is_changed
    /\ Lt(obs.before[1].changed, obs.proxy.last_run)
    /\ Lt(obs.proxy.this_run, obs.proxy.last_run)

(* C7: with the scan at least every 2 * CHECK_TICK_THRESHOLD - 1 ticks, the
   age of no stored tick overflows, and a stored tick is reported newer than
   a system's last run only if it was stamped after that run. *)
C7_NoFalsePositive ==
    /\ ~hist.overflow
    /\ cell # None =>
          \A s \in TickSystem :
              /\ is_newer_than(cell[1].changed, meta_last_run[s], w_tick) => hist.newer[s]
              /\ is_newer_than(cell[1].added, meta_last_run[s], w_tick) => hist.added_newer[s]

\* The world has ticked more than u32::MAX times (five jumps, the tick has
\* wrapped below the tick of the last scan) and a change made before the
\* system's last run is not reported.
C7_Witness ==
    /\ hist.jumps = MaxJumps
    /\ Lt(w_tick, U32(CHECK_TICK_THRESHOLD))
    /\ cell # None
    /\ \E s \in TickSystem : ~hist.newer[s] /\ hist.runs[s] > 0

(* C8: a scan at tick t sets every stored tick (added, changed, system last
   run) older than MAX_CHANGE_AGE to age exactly MAX_CHANGE_AGE, leaves every
   other tick unchanged, and after it every stored tick has age at most
   MAX_CHANGE_AGE. *)
ClampedRight(before, after) ==
    /\ IF Lt(MAX_CHANGE_AGE, Age(before)) THEN Age(after) = MAX_CHANGE_AGE
                                           ELSE after = before
    /\ Le(Age(after), MAX_CHANGE_AGE)

C8_ScanClamps ==
    obs.op = "scan" =>
        /\ \A s \in CellSystem : ClampedRight(obs.last_run[s], meta_last_run[s])
        /\ obs.cell # None =>
              /\ ClampedRight(obs.cell[1].added, cell[1].added)
              /\ ClampedRight(obs.cell[1].changed, cell[1].changed)

\* A scan that clamped the added tick and left the younger changed tick.
C8_Witness ==
    /\ obs.op = "scan" /\ obs.cell # None
    /\ cell[1].added # obs.cell[1].added
    /\ cell[1].changed = obs.cell[1].changed
    /\ cell[1].changed # cell[1].added

(* C9: a scan that directly follows a scan at the same world tick leaves
   every stored tick as the first scan left it. *)
C9_ScanIdempotent ==
    (obs.op = "scan" /\ obs.again) =>
        /\ cell = obs.cell
        /\ meta_last_run = obs.last_run

\* Two scans in a row, the first of which clamped a tick.
C9_Witness ==
    /\ obs.op = "scan" /\ obs.again /\ cell # None
    /\ Age(cell[1].added) = MAX_CHANGE_AGE
    /\ Age(cell[1].changed) # MAX_CHANGE_AGE

\* Reference ticks a proxy over the component can be built with
\* (Proxy::new): tick 0, the current tick and the ticks of the systems'
\* last runs.
PairTicks == {U32(0), w_tick} \cup {meta_last_run[s] : s \in CellSystem}

(* C34 as stated: without set_last_changed, the changed tick of the
   component is never older than its added tick, and is_added() implies
   is_changed() for every proxy over it, whatever its pair (last_run,
   this_run), also after the overflow scan clamped the ticks. *)
C34_AddedImpliesChanged ==
    cell # None =>
        /\ Le(Age(cell[1].changed), Age(cell[1].added))
        /\ \A last_run \in PairTicks, run \in PairTicks :
              LET p == [last_run |-> last_run, this_run |-> run]
              IN is_added(cell[1], p) => is_changed(cell[1], p)

(* C34 amended: the same for every proxy whose this_run is the current
   tick, as Proxy::new documents it, and every last_run; and for the proxy
   of every system run. *)
C34_AddedImpliesChangedNow ==
    /\ cell # None =>
          /\ Le(Age(cell[1].changed), Age(cell[1].added))
          /\ \A last_run \in PairTicks \cup {cell[1].added, cell[1].changed} :
                LET p == [last_run |-> last_run, this_run |-> w_tick]
                IN is_added(cell[1], p) => is_changed(cell[1], p)
    /\ (obs.op = "run" /\ obs.is_added) => obs.is_changed

\* A scan clamped the added tick and left the younger changed tick; for
\* some last_run the component is changed and not added, for another it is
\* neither.
C34_Witness ==
    /\ obs.op = "scan" /\ obs.cell # None
    /\ cell[1].added # obs.cell[1].added
    /\ Lt(Age(cell[1].changed), Age(cell[1].added))
    /\ \E last_run \in PairTicks :
          LET p == [last_run |-> last_run, this_run |-> w_tick]
          IN is_changed(cell[1], p) /\ ~is_added(cell[1], p)

-----------------------------------------------------------------------------
(* Specification SpecCombinator: a CombinatorSystem or a PipeSystem over
   two inner systems a and b, in a world whose tick advances past
   MAX_CHANGE_AGE.  The combined system runs (a CombinatorSystem runs the
   inner systems its Combine function calls, a PipeSystem runs a and then
   b), other systems advance the world tick, and the schedule's overflow
   scan calls check_change_tick on the combined system at least every
   2 * CHECK_TICK_THRESHOLD - 1 ticks. *)

\* System::check_change_tick of an inner system: its last-run tick is
\* checked against the given tick.
System_check_change_tick(last_run, tick) == check_tick(last_run, tick)

\* Mutant of CombinatorSystem_check_change_tick: only system a is checked.
CombinatorSystem_check_change_tick_OnlyA(self, tick) ==
    [self EXCEPT !.a = System_check_change_tick(@, tick)]

\* CombinatorSystem::check_change_tick
CombinatorSystem_check_change_tick(self, tick) ==
    [self EXCEPT !.a = System_check_change_tick(@, tick),
                 !.b = System_check_change_tick(@, tick)]

\* PipeSystem::check_change_tick
PipeSystem_check_change_tick(self, tick) ==
    [self EXCEPT !.a = System_check_change_tick(@, tick),
                 !.b = System_check_change_tick(@, tick)]

\* An inner system runs at the world tick: the pair of its new last-run
\* tick and the world tick after the run.
InnerRun(ran, last_run, tick) ==
    IF ran THEN <<tick, wrapping_add(tick, U32(1))>> ELSE <<last_run, tick>>

\* CombinatorSystem::run / PipeSystem::run: system a runs when run_a, then
\* system b when run_b; a PipeSystem runs both.
CombinedRun(run_a, run_b) ==
    /\ combinator.kind = "PipeSystem" => (run_a /\ run_b)
    /\ CanAdvance(2)
    /\ combined_obs.runs < MaxRuns
    /\ LET ra == InnerRun(run_a, combinator.a, w_tick)
           rb == InnerRun(run_b, combinator.b, ra[2])
       IN /\ combinator' = [combinator EXCEPT !.a = ra[1], !.b = rb[1]]
          /\ w_tick' = rb[2]
    /\ combined_obs' = [op |-> "run", runs |-> combined_obs.runs + 1,
                        jumps |-> combined_obs.jumps]
    /\ UNCHANGED <<w_last_check, nonComboVars>>

\* Systems that are not modelled run k times: the world ticks k times.
CombinedAdvance(k) ==
    /\ CanAdvance(k)
    /\ combined_obs.jumps < MaxJumps
    /\ w_tick' = wrapping_add(w_tick, U32(k))
    /\ combined_obs' = [op |-> "advance", runs |-> combined_obs.runs,
                        jumps |-> combined_obs.jumps + 1]
    /\ UNCHANGED <<combinator, w_last_check, nonComboVars>>

\* The overflow scan reaches the combined system:
\* system.check_change_tick(change_tick).
CombinedScan ==
    /\ combinator' = IF combinator.kind = "PipeSystem"
                     THEN PipeSystem_check_change_tick(combinator, ScanTick)
                     ELSE CombinatorSystem_check_change_tick(combinator, ScanTick)
    /\ w_last_check' = w_tick
    /\ combined_obs' = [op |-> "scan", runs |-> combined_obs.runs,
                        jumps |-> combined_obs.jumps, before |-> combinator]
    /\ UNCHANGED <<w_tick, nonComboVars>>

InitCombinator ==
    /\ BackingDefault
    /\ upd = NoUpdate
    /\ WorldNew
    /\ CellWorldNew
    /\ FilterWorldNew
    /\ GraphIdle
    /\ SchedIdle
    /\ \E kind \in {"CombinatorSystem", "PipeSystem"} : CombinatorNew(kind)

NextCombinator ==
    \/ \E run_a, run_b \in BOOLEAN : CombinedRun(run_a, run_b)
    \/ \E k \in Jumps : CombinedAdvance(k)
    \/ CombinedScan

SpecCombinator == InitCombinator /\ [][NextCombinator]_vars

(* C32: check_change_tick on a CombinatorSystem and on a PipeSystem checks
   the last-run tick of inner system a and of inner system b: a tick older
   than MAX_CHANGE_AGE is clamped to that age, any other is left, and after
   the scan the last-run tick of each inner system has age at most
   MAX_CHANGE_AGE, also for an inner system that did not run for long. *)
C32_ScanReachesInnerSystems ==
    combined_obs.op = "scan" =>
        /\ ClampedRight(combined_obs.before.a, combinator.a)
        /\ ClampedRight(combined_obs.before.b, combinator.b)
        /\ Le(Age(combinator.a), MAX_CHANGE_AGE)
        /\ Le(Age(combinator.b), MAX_CHANGE_AGE)

\* Of a CombinatorSystem system a ran and system b never did; a scan
\* clamped the last-run tick of b and left that of a.
C32_Witness ==
    /\ combined_obs.op = "scan"
    /\ combinator.kind = "CombinatorSystem"
    /\ combined_obs.before.b = U32(0)
    /\ combinator.b # combined_obs.before.b
    /\ combinator.a = combined_obs.before.a
    /\ combinator.a # U32(0)

-----------------------------------------------------------------------------
(* Specification SpecFilter: a world whose entities gain, replace and lose
   the immutable component C, with the two index-backed query filters over
   it: QueryByIndex (index/query_by_index.rs), which reads an Index<C> of
   marker components, and the ByIndex adjustable filter of
   examples/ecs/adjustable_query_filter.rs, which reads the example's own
   Index<C>.  Both indexes are kept by lifecycle observers, which run inside
   the insertion or removal that triggers them. *)

\* index & (1 << i) > 0
BitSet(idx, i) == (idx \div (2 ^ i)) % 2 = 1

\* The Index<C> that QueryByIndex reads: a value gets an entry of the mapping
\* when it is first inserted, the index tracks as many markers as the
\* entries it has given out need bits, and an entity carries the marker
\* components of the bits set in the entry of its value.
IndexInsert(m, value) ==
    IF value \in DOMAIN m THEN m ELSE MapInsert(m, value, Cardinality(DOMAIN m))
RequiredMarkers(idx) ==
    CHOOSE n \in 0..NumMarkers : idx < 2 ^ n /\ (n = 0 \/ idx >= 2 ^ (n - 1))
MarkersOf(idx) == {i \in 0..(NumMarkers - 1) : BitSet(idx, i)}

\* QueryByIndexState::init_state: the primary state QueryState<D, (F, With<C>)>
\* and, for every marker the index tracks now, a state with the marker and a
\* state without it (position i of the Vec is element i + 1 here).  A state
\* is the set of archetypes it matches; when built it matches the
\* archetypes the world has.  archetype_generation is the system's record of
\* the archetypes it has passed to new_archetype.
init_state ==
    [primary_query_state |-> archetypes,
     with_states |-> [i \in 1..index_markers |-> {a \in archetypes : (i - 1) \in a}],
     without_states |-> [i \in 1..index_markers |-> {a \in archetypes : (i - 1) \notin a}],
     archetype_generation |-> archetypes]

\* QueryByIndexState::new_archetype: the archetype is offered to the primary
\* state and to every cached with-marker and without-marker state; each
\* takes it when its filter accepts it.
new_archetype(sps, archetype) ==
    [sps EXCEPT !.primary_query_state = @ \cup {archetype},
                !.with_states = [i \in DOMAIN @ |->
                                    IF (i - 1) \in archetype THEN @[i] \cup {archetype}
                                                             ELSE @[i]],
                !.without_states = [i \in DOMAIN @ |->
                                       IF (i - 1) \notin archetype THEN @[i] \cup {archetype}
                                                                   ELSE @[i]],
                !.archetype_generation = @ \cup {archetype}]

\* System::update_archetype_component_access before a run: new_archetype is
\* called for every archetype created since the system last looked.
RECURSIVE update_archetypes(_)
update_archetypes(sps) ==
    IF archetypes \subseteq sps.archetype_generation THEN sps
    ELSE LET a == CHOOSE x \in archetypes : x \notin sps.archetype_generation
         IN update_archetypes(new_archetype(sps, a))

\* The cached query states at() reads.
primary_query_state(sps) == sps.primary_query_state
with_states(sps, i) == sps.with_states[i + 1]
without_states(sps, i) == sps.without_states[i + 1]

\* QueryState::join_filtered: the joined state matches the archetypes both
\* states match.
join_filtered(state, filter) == state \cap filter

\* Mutant of JoinMarkers: only the with-marker filters of the set bits are
\* joined.
RECURSIVE JoinMarkers_WithOnly(_, _, _, _)
JoinMarkers_WithOnly(sps, idx, i, r) ==
    IF i = index_markers \/ r.panicked THEN r
    ELSE IF i >= Len(sps.with_states) THEN [panicked |-> TRUE, state |-> None]
    ELSE IF BitSet(idx, i)
         THEN LET base == IF r.state = None THEN primary_query_state(sps) ELSE r.state[1]
              IN JoinMarkers_WithOnly(sps, idx, i + 1,
                     [panicked |-> FALSE,
                      state |-> Some(join_filtered(base, with_states(sps, i)))])
         ELSE JoinMarkers_WithOnly(sps, idx, i + 1, r)

\* The loop of QueryByIndex::at over the positions 0..index.markers.len(),
\* from position i on: self.state and whether the loop has panicked.  The
\* Vecs with_states and without_states are indexed with i, which panics
\* when i is not below their length.
RECURSIVE JoinMarkers(_, _, _, _)
JoinMarkers(sps, idx, i, r) ==
    IF i = index_markers \/ r.panicked THEN r
    ELSE IF i >= Len(sps.with_states) THEN [panicked |-> TRUE, state |-> None]
    ELSE LET base == IF r.state = None THEN primary_query_state(sps) ELSE r.state[1]
             filter == IF BitSet(idx, i) THEN with_states(sps, i)
                                         ELSE without_states(sps, i)
         IN JoinMarkers(sps, idx, i + 1,
                [panicked |-> FALSE, state |-> Some(join_filtered(base, filter))])

\* Query::iter of a query state: the entities of the archetypes it matches.
QueryIter(state) == {e \in FilterEntity : f_world[e] # None /\ markers[e] \in state}

\* Mutant of at: the state the previous call composed is not discarded.
at_KeepState(sps, value, state) ==
    LET found == MapGet(mapping, value)
    IN IF found = None
       THEN [panicked |-> TRUE, entities |-> {}, state |-> state]
       ELSE LET r == JoinMarkers(sps, found[1], 0, [panicked |-> FALSE, state |-> state])
            IN IF r.panicked THEN [panicked |-> TRUE, entities |-> {}, state |-> r.state]
               ELSE [panicked |-> FALSE,
                     entities |-> QueryIter(IF r.state = None THEN primary_query_state(sps)
                                                              ELSE r.state[1]),
                     state |-> r.state]

\* QueryByIndex::at on a QueryByIndex whose field state is `state`:
\* self.state = None; a value without an entry in the
\* mapping reaches todo!() and panics; otherwise the query of the joined
\* state is returned (of the primary state when nothing was joined).
at(sps, value, state) ==
    LET cleared == None
        found == MapGet(mapping, value)
    IN IF found = None
       THEN [panicked |-> TRUE, entities |-> {}, state |-> cleared]
       ELSE LET r == JoinMarkers(sps, found[1], 0, [panicked |-> FALSE, state |-> cleared])
            IN IF r.panicked THEN [panicked |-> TRUE, entities |-> {}, state |-> r.state]
               ELSE [panicked |-> FALSE,
                     entities |-> QueryIter(IF r.state = None THEN primary_query_state(sps)
                                                              ELSE r.state[1]),
                     state |-> r.state]

\* The observers of the example's Index<C>.
\* Mutant of on_replace: the entity stays in the bucket of the old value.
on_replace_Keep(m, entity, value) == m

on_replace(m, entity, value) == [m EXCEPT ![value] = @ \ {entity}]
on_insert(m, entity, value) ==
    IF value \in DOMAIN m THEN [m EXCEPT ![value] = @ \cup {entity}]
    ELSE MapInsert(m, value, {entity})

\* ByIndex::adjust_filter: the fetch's index becomes the bucket of the
\* value, None when the mapping has no entry for it.
adjust_filter(value) == MapGet(ex_mapping, value)

\* ByIndex::filter_fetch: the inner filter (With<C>, F), F = (), and the
\* index when there is one.
filter_fetch(fetch_index, entity) ==
    LET inner_filter_fetch == f_world[entity] # None
        matches_index == fetch_index = None \/ entity \in fetch_index[1]
    IN inner_filter_fetch /\ matches_index

\* C is inserted on the entity; when the entity already has C, OnReplace runs
\* on the old value first, then OnInsert on the new value.  The entity ends
\* in the archetype of C and the markers of its value, which the world
\* creates when it does not exist.
FilterInsert(e, v) ==
    /\ v \in DOMAIN mapping \/ Cardinality(DOMAIN mapping) < 2 ^ NumMarkers
    /\ LET old == f_world[e]
           replaced == IF old = None THEN ex_mapping ELSE on_replace(ex_mapping, e, old[1])
           m == IndexInsert(mapping, v)
           required == RequiredMarkers(m[v])
       IN /\ ex_mapping' = on_insert(replaced, e, v)
          /\ mapping' = m
          /\ index_markers' = IF required > index_markers THEN required ELSE index_markers
          /\ markers' = [markers EXCEPT ![e] = MarkersOf(m[v])]
          /\ archetypes' = archetypes \cup {MarkersOf(m[v])}
    /\ f_world' = [f_world EXCEPT ![e] = Some(v)]
    /\ fres' = NoQuery
    /\ UNCHANGED <<system_param_state, self_state, nonFilterVars>>

\* C is removed from the entity, or the entity is despawned: OnReplace runs
\* on the value while the entity still has it.
FilterRemove(e) ==
    /\ f_world[e] # None
    /\ ex_mapping' = on_replace(ex_mapping, e, f_world[e][1])
    /\ markers' = [markers EXCEPT ![e] = {}]
    /\ f_world' = [f_world EXCEPT ![e] = None]
    /\ fres' = NoQuery
    /\ UNCHANGED <<mapping, index_markers, archetypes, system_param_state, self_state,
                   nonFilterVars>>

\* The system with the QueryByIndex<C, Entity> parameter is initialized.
InitState ==
    /\ system_param_state = None
    /\ system_param_state' = Some(init_state)
    /\ fres' = NoQuery
    /\ UNCHANGED <<f_world, markers, mapping, ex_mapping, index_markers, archetypes,
                   self_state, nonFilterVars>>

\* SystemParam::get_param of QueryByIndex: the item starts with state: None.
get_param == None

\* The system runs: its state is brought up to the world's archetypes, the
\* QueryByIndex<C, Entity> item is built, and the system calls
\* query.at(&value).iter() on it.
QueryByIndexAt(v) ==
    /\ system_param_state # None
    /\ LET sps == update_archetypes(system_param_state[1])
           r == at(sps, v, get_param)
       IN /\ system_param_state' = Some(sps)
          /\ self_state' = r.state
          /\ fres' = [op |-> "QueryByIndex::at", value |-> v,
                      mapped |-> v \in DOMAIN mapping,
                      covered |-> index_markers <= Len(sps.with_states),
                      late |-> archetypes \ system_param_state[1].archetype_generation,
                      panicked |-> r.panicked, entities |-> r.entities,
                      call |-> 1, previous |-> None]
    /\ UNCHANGED <<f_world, markers, mapping, ex_mapping, index_markers, archetypes,
                   nonFilterVars>>

\* The running system calls query.at(&value).iter() once more on the same
\* QueryByIndex item: the world and the system's state are those of the
\* previous call, the item's state is what that call left.  A call that
\* panicked ended the run.
QueryByIndexAtAgain(v) ==
    /\ fres.op = "QueryByIndex::at"
    /\ ~fres.panicked
    /\ fres.call < MaxCalls
    /\ LET r == at(system_param_state[1], v, self_state)
       IN /\ self_state' = r.state
          /\ fres' = [op |-> "QueryByIndex::at", value |-> v,
                      mapped |-> v \in DOMAIN mapping,
                      covered |-> fres.covered,
                      late |-> fres.late,
                      panicked |-> r.panicked, entities |-> r.entities,
                      call |-> fres.call + 1, previous |-> Some(fres.value)]
    /\ UNCHANGED <<f_world, markers, mapping, ex_mapping, index_markers, archetypes,
                   system_param_state, nonFilterVars>>

\* A system iterates query.iter().at(&index, &value) on its
\* Query<Entity, ByIndex<C>>.
ByIndexAt(v) ==
    /\ LET fetch_index == adjust_filter(v)
       IN fres' = [op |-> "ByIndex::at", value |-> v,
                   mapped |-> v \in DOMAIN ex_mapping,
                   panicked |-> FALSE,
                   entities |-> {e \in FilterEntity : filter_fetch(fetch_index, e)}]
    /\ UNCHANGED <<f_world, markers, mapping, ex_mapping, index_markers, archetypes,
                   system_param_state, self_state, nonFilterVars>>

InitFilter ==
    /\ BackingDefault
    /\ upd = NoUpdate
    /\ WorldNew
    /\ CellWorldNew
    /\ FilterWorldNew
    /\ GraphIdle
    /\ CombinatorIdle
    /\ SchedIdle

NextFilter ==
    \/ \E e \in FilterEntity, v \in FilterValue : FilterInsert(e, v)
    \/ \E e \in FilterEntity : FilterRemove(e)
    \/ InitState
    \/ \E v \in FilterValue : QueryByIndexAt(v)
    \/ \E v \in FilterValue : QueryByIndexAtAgain(v)
    \/ \E v \in FilterValue : ByIndexAt(v)

SpecFilter == InitFilter /\ [][NextFilter]_vars

(* C3: a filtered query for a value that has no entry in the index mapping
   does not panic and matches no entity, for QueryByIndex::at and for the
   ByIndex filter of the example. *)
C3_UnmappedMatchesNothing ==
    (fres.op # "none" /\ ~fres.mapped) =>
        /\ ~fres.panicked
        /\ fres.entities = {}

(* C14: QueryByIndex::at(v), for a value v the index has an entry for, in a
   system initialized after the spawning (its cached sub-filters cover the
   markers of the index), iterates exactly the entities that hold C(v): as
   many as were spawned with that value. *)
C14_AtIteratesHolders ==
    (fres.op = "QueryByIndex::at" /\ fres.mapped /\ fres.covered) =>
        /\ ~fres.panicked
        /\ fres.entities = {e \in FilterEntity : f_world[e] = Some(fres.value)}

\* A query for the value of one entity while another entity holds another
\* value.
C14_Witness ==
    /\ fres.op = "QueryByIndex::at" /\ fres.mapped /\ fres.covered
    /\ Cardinality(fres.entities) = 1
    /\ \E e \in FilterEntity : f_world[e] # None /\ f_world[e] # Some(fres.value)

(* C24: when the system runs, every archetype the world has created, those
   created after the system was initialized included, is registered with
   the primary query state and with every cached with-marker and
   without-marker state whose filter accepts it; and an entity that is in
   an archetype created after the initialization is returned by at(value)
   for its value. *)
C24_NewArchetypesRegistered ==
    fres.op = "QueryByIndex::at" =>
        LET sps == system_param_state[1]
        IN /\ sps.archetype_generation = archetypes
           /\ sps.primary_query_state = archetypes
           /\ \A i \in DOMAIN sps.with_states :
                 /\ sps.with_states[i] = {a \in archetypes : (i - 1) \in a}
                 /\ sps.without_states[i] = {a \in archetypes : (i - 1) \notin a}
           /\ \A e \in FilterEntity :
                 (f_world[e] = Some(fres.value) /\ markers[e] \in fres.late)
                     => e \in fres.entities

(* C25: QueryByIndex::at(v) for a value v with an entry in the mapping
   returns the query of the primary state joined, for every marker position
   i of the index, with the with-marker state of i when bit i of the entry
   is set and with the without-marker state of i otherwise; it matches
   exactly the entities with C whose markers are the set bits of the entry,
   which are exactly the entities that hold v. *)
C25_AtComposesByPattern ==
    (fres.op = "QueryByIndex::at" /\ fres.mapped) =>
        LET sps == system_param_state[1]
            idx == mapping[fres.value]
            composed == {a \in sps.primary_query_state :
                            \A i \in 0..(index_markers - 1) :
                                /\ i + 1 \in DOMAIN sps.with_states
                                /\ IF BitSet(idx, i) THEN a \in sps.with_states[i + 1]
                                                     ELSE a \in sps.without_states[i + 1]}
        IN /\ ~fres.panicked
           /\ fres.entities = QueryIter(composed)
           /\ fres.entities = {e \in FilterEntity :
                                  f_world[e] # None /\ markers[e] = MarkersOf(idx)}
           /\ fres.entities = {e \in FilterEntity : f_world[e] = Some(fres.value)}

(* C33: at every call of QueryByIndex::at the markers the index tracks are
   at most as many as the with-marker states and as the without-marker
   states the system cached at its initialization, and the call of a mapped
   value does not panic on an index past the end of the cached lists. *)
C33_AtWithinCache ==
    fres.op = "QueryByIndex::at" =>
        LET sps == system_param_state[1]
        IN /\ index_markers <= Len(sps.with_states)
           /\ index_markers <= Len(sps.without_states)
           /\ fres.mapped => ~fres.panicked

(* C35: in the example's Index<C>, set up before any entity has C, after
   any sequence of inserting C, replacing its value and removing it (by
   remove or by despawn), the bucket of every value is exactly the set of
   entities that hold the value now, a value without a bucket is held by no
   entity, and no entity is in a bucket of another value than its own. *)
C35_ObserverIndexExact ==
    /\ \A v \in DOMAIN ex_mapping :
          ex_mapping[v] = {e \in FilterEntity : f_world[e] = Some(v)}
    /\ \A v \in FilterValue \ DOMAIN ex_mapping :
          {e \in FilterEntity : f_world[e] = Some(v)} = {}
    /\ \A e \in FilterEntity : \A v \in DOMAIN ex_mapping :
          e \in ex_mapping[v] => f_world[e] = Some(v)

\* A value lost its last holder (its bucket stays, empty), another bucket
\* has a member and some entity has no C.
C35_Witness ==
    /\ \E v \in DOMAIN ex_mapping : ex_mapping[v] = {}
    /\ \E v \in DOMAIN ex_mapping : Cardinality(ex_mapping[v]) >= 1
    /\ \E e \in FilterEntity : f_world[e] = None

(* C37: a call of at(v2) that follows a call at(v1) in the same run gives
   what at(v2) gives on a QueryByIndex item as get_param builds it: the
   same entities, or the same panic. *)
C37_AtDependsOnValueOnly ==
    (fres.op = "QueryByIndex::at" /\ fres.call > 1) =>
        LET alone == at(system_param_state[1], fres.value, get_param)
        IN /\ fres.panicked = alone.panicked
           /\ fres.entities = alone.entities

\* at(v1) composed a state and matched a holder of v1; at(v2), v2 # v1, in
\* the same run matched a holder of v2 and not the holder of v1.
C37_Witness ==
    /\ fres.op = "QueryByIndex::at" /\ fres.call > 1
    /\ fres.previous # Some(fres.value)
    /\ self_state # None
    /\ fres.entities # {}
    /\ \E e \in FilterEntity : f_world[e] = fres.previous /\ e \notin fres.entities

-----------------------------------------------------------------------------
(* Specification SpecSched: systems run in parallel by a scheduler that
   starts a system only when its declared access is compatible with the
   access of every system that is running.  A system with an Index<T>
   parameter that reads the index refreshes it first, in two passes
   (update_index_internal: the removal events, then the changed entities),
   each pass a step of its own; the other systems only read T. *)

\* Mutant of Index_access: the IndexBacking is held as Res.
Index_access_Res ==
    [reads |-> {"T", "RemovedComponents<T>", "IndexBacking<T, F, I>"}, writes |-> {}]

\* The access struct Index declares through its fields: the changed query
\* and the removal events read T, index is ResMut<IndexBacking<T, F, I>>.
Index_access ==
    [reads |-> {"T", "RemovedComponents<T>"}, writes |-> {"IndexBacking<T, F, I>"}]

\* The access of a system with a Query<&T>.
Reader_access == [reads |-> {"T"}, writes |-> {}]

access(s) == IF s \in IndexUser THEN Index_access ELSE Reader_access

\* Access::is_compatible: neither writes what the other reads or writes.
is_compatible(a, b) ==
    /\ a.writes \cap (b.reads \cup b.writes) = {}
    /\ b.writes \cap (a.reads \cup a.writes) = {}

Running == {s \in ParSystem : task[s] # "idle"}

\* The systems that are between the two passes of their refresh.
Between == {s \in IndexUser : task[s] = "between"}

\* The scheduler starts system s.
SchedStart(s) ==
    /\ task[s] = "idle"
    /\ \A r \in Running : is_compatible(access(s), access(r))
    /\ task' = [task EXCEPT ![s] = "running"]
    /\ seen' = seen
    /\ UNCHANGED nonSchedVars

\* update_index_internal of system s, first loop: the removal events.
RemovalPass(s) ==
    /\ s \in IndexUser
    /\ task[s] = "running"
    /\ task' = [task EXCEPT ![s] = "between"]
    /\ seen' = [op |-> "removal pass", sys |-> s, between |-> Between \ {s},
                others |-> Running \ {s}]
    /\ UNCHANGED nonSchedVars

\* update_index_internal of system s, second loop: the changed entities.
ChangePass(s) ==
    /\ s \in IndexUser
    /\ task[s] = "between"
    /\ task' = [task EXCEPT ![s] = "refreshed"]
    /\ seen' = [op |-> "change pass", sys |-> s, between |-> Between \ {s},
                others |-> Running \ {s}]
    /\ UNCHANGED nonSchedVars

\* Index::get / Index::iter of system s after its ensure_updated: the maps
\* are read.
SchedRead(s) ==
    /\ s \in IndexUser
    /\ task[s] = "refreshed"
    /\ seen' = [op |-> "read", sys |-> s, between |-> Between \ {s},
                others |-> Running \ {s}]
    /\ UNCHANGED <<task, nonSchedVars>>

\* System s ends: a system with an Index<T> that did not read the index, or
\* that refreshed it; or a reader of T.
SchedEnd(s) ==
    /\ task[s] \in {"running", "refreshed"}
    /\ task' = [task EXCEPT ![s] = "idle"]
    /\ seen' = seen
    /\ UNCHANGED nonSchedVars

InitSched ==
    /\ BackingDefault
    /\ upd = NoUpdate
    /\ WorldNew
    /\ CellWorldNew
    /\ FilterWorldNew
    /\ GraphIdle
    /\ CombinatorIdle
    /\ SchedIdle

NextSched ==
    \/ \E s \in ParSystem : SchedStart(s)
    \/ \E s \in ParSystem : RemovalPass(s)
    \/ \E s \in ParSystem : ChangePass(s)
    \/ \E s \in ParSystem : SchedRead(s)
    \/ \E s \in ParSystem : SchedEnd(s)

SpecSched == InitSched /\ [][NextSched]_vars

(* C31: under a scheduler that respects declared access no two systems
   with the same Index<T, F, I> run at the same time, so a pass of a
   refresh and a read of the maps never happen while another system is
   between the removal pass and the change pass of its refresh. *)
C31_RefreshNotInterleaved ==
    /\ \A s1, s2 \in IndexUser :
          (s1 # s2 /\ task[s1] # "idle") => task[s2] = "idle"
    /\ seen.op # "none" =>
          /\ seen.between = {}
          /\ seen.others \cap IndexUser = {}

\* A system with the Index did the removal pass of its refresh while some
\* other system was running: it is between the passes, a reader of T runs
\* in parallel, and another system with the same Index is held back.
C31_Witness ==
    /\ seen.op = "removal pass"
    /\ seen.others # {}
    /\ \E s \in IndexUser \ {seen.sys} : task[seen.sys] = "between" /\ task[s] = "idle"
    /\ \E r \in ParSystem \ IndexUser : task[r] = "running"

-----------------------------------------------------------------------------
(* Specification SpecGraph: a Graph<DIRECTED>, directed or undirected,
   that starts empty and on which add_node, remove_node, add_edge and
   remove_edge are called in any order (schedule/graph/graph.rs).  An
   adjacency list is a sequence of <<node, direction>> with direction
   "Out", "In" or "Both". *)

\* Graph::proper_edge: an undirected edge is stored smaller node first.
proper_edge(a, b) == IF ~DIRECTED /\ a > b THEN <<b, a>> ELSE <<a, b>>

\* Graph::contains_node, Graph::contains_edge
contains_node(node) == node \in DOMAIN nodes
contains_edge(a, b) == proper_edge(a, b) \in edges

\* Graph::neighbors_directed: the nodes of the entries of a's list whose
\* direction is Both or the requested one, in list order.
neighbors_directed(a, direction) ==
    LET list == IF a \in DOMAIN nodes THEN nodes[a] ELSE <<>>
        matching == SelectSeq(list, LAMBDA l : l[2] = "Both" \/ l[2] = direction)
    IN [i \in DOMAIN matching |-> matching[i][1]]

\* Graph::neighbors
neighbors(a) == neighbors_directed(a, "Out")

\* The nodes an iterator yields.
Yielded(iter) == {iter[i] : i \in DOMAIN iter}

\* self.nodes.entry(node).or_default()
add_node(ns, node) == IF node \in DOMAIN ns THEN ns ELSE MapInsert(ns, node, <<>>)

\* self.nodes.entry(node).or_default().push(link)
EntryPush(ns, node, link) == MapInsert(ns, node, Append(add_node(ns, node)[node], link))

\* Graph::add_edge: the graph after the call and the value it returns.
add_edge(ns, es, a0, b0) ==
    LET a == proper_edge(a0, b0)[1]
        b == proper_edge(a0, b0)[2]
    IN IF <<a, b>> \notin es
       THEN LET ns1 == EntryPush(ns, a, <<b, IF DIRECTED THEN "Out" ELSE "Both">>)
                ns2 == IF a # b
                       THEN EntryPush(ns1, b, <<a, IF DIRECTED THEN "In" ELSE "Both">>)
                       ELSE ns1
            IN [nodes |-> ns2, edges |-> es \cup {<<a, b>>}, ret |-> TRUE]
       ELSE [nodes |-> ns, edges |-> es, ret |-> FALSE]

\* list.retain_mut of remove_edge: an entry of node c with direction Out or
\* In is dropped, one with direction Both is kept with the given direction;
\* the other entries are kept.
retain_mut(list, c, direction) ==
    LET kept == SelectSeq(list, LAMBDA l : l[1] # c \/ l[2] = "Both")
    IN [i \in DOMAIN kept |-> IF kept[i][1] = c THEN <<c, direction>> ELSE kept[i]]

\* Graph::remove_edge
remove_edge(ns, es, a0, b0) ==
    LET a == proper_edge(a0, b0)[1]
        b == proper_edge(a0, b0)[2]
    IN IF <<a, b>> \in es
       THEN LET ns1 == IF a \in DOMAIN ns
                       THEN MapInsert(ns, a, retain_mut(ns[a], b, "In")) ELSE ns
                ns2 == IF b \in DOMAIN ns1
                       THEN MapInsert(ns1, b, retain_mut(ns1[b], a, "Out")) ELSE ns1
            IN [nodes |-> ns2, edges |-> es \ {<<a, b>>}, ret |-> TRUE]
       ELSE [nodes |-> ns, edges |-> es, ret |-> FALSE]

\* The loop of remove_node over the links of the removed node a.
RECURSIVE RemoveLinks(_, _, _, _)
RemoveLinks(ns, es, a, links) ==
    IF links = <<>> THEN [nodes |-> ns, edges |-> es, ret |-> TRUE]
    ELSE LET b == Head(links)[1]
             dir == Head(links)[2]
             ns1 == IF b \in DOMAIN ns
                    THEN MapInsert(ns, b, SelectSeq(ns[b], LAMBDA l : l[1] # a)) ELSE ns
             es1 == CASE dir = "Out" -> es \ {<<a, b>>}
                      [] dir = "In" -> es \ {<<b, a>>}
                      [] dir = "Both" -> es \ {<<a, b>>, <<b, a>>}
         IN RemoveLinks(ns1, es1, a, Tail(links))

\* Graph::remove_node
remove_node(ns, es, a) ==
    IF a \notin DOMAIN ns THEN [nodes |-> ns, edges |-> es, ret |-> FALSE]
    ELSE RemoveLinks(MapRemove(ns, a), es, a, ns[a])

AddNode(node) ==
    /\ nodes' = add_node(nodes, node)
    /\ UNCHANGED <<DIRECTED, edges, nonGraphVars>>

RemoveNode(a) ==
    /\ LET r == remove_node(nodes, edges, a)
       IN nodes' = r.nodes /\ edges' = r.edges
    /\ UNCHANGED <<DIRECTED, nonGraphVars>>

ListLen(node) == IF node \in DOMAIN nodes THEN Len(nodes[node]) ELSE 0

AddEdge(a, b) ==
    /\ ListLen(a) < MaxLinks /\ ListLen(b) < MaxLinks
    /\ LET r == add_edge(nodes, edges, a, b)
       IN nodes' = r.nodes /\ edges' = r.edges
    /\ UNCHANGED <<DIRECTED, nonGraphVars>>

RemoveEdge(a, b) ==
    /\ LET r == remove_edge(nodes, edges, a, b)
       IN nodes' = r.nodes /\ edges' = r.edges
    /\ UNCHANGED <<DIRECTED, nonGraphVars>>

InitGraph ==
    /\ BackingDefault
    /\ upd = NoUpdate
    /\ WorldNew
    /\ CellWorldNew
    /\ FilterWorldNew
    /\ CombinatorIdle
    /\ SchedIdle
    /\ DIRECTED \in BOOLEAN
    /\ Graph_new

NextGraph ==
    \/ \E node \in NodeId : AddNode(node)
    \/ \E node \in NodeId : RemoveNode(node)
    \/ \E a, b \in NodeId : AddEdge(a, b)
    \/ \E a, b \in NodeId : RemoveEdge(a, b)

SpecGraph == InitGraph /\ [][NextGraph]_vars

(* C36: in a directed and in an undirected graph, after any sequence of
   add_node, add_edge, remove_edge and remove_node, contains_edge(a, b)
   holds exactly when neighbors(a) yields b, and in an undirected graph
   exactly when neighbors(b) yields a. *)
C36_EdgesAgreeWithAdjacency ==
    \A a, b \in NodeId :
        /\ contains_edge(a, b) <=> b \in Yielded(neighbors(a))
        /\ ~DIRECTED => (contains_edge(a, b) <=> a \in Yielded(neighbors(b)))

-----------------------------------------------------------------------------
(* Specification SpecGcd: gcd_by_table::<N>(value) called with any constant
   N and any value (crates/bevy_math/src/gcd.rs). *)

\* gcd(a, b): while b != 0 { (a, b) = (b, a % b) }; a
RECURSIVE gcd(_, _)
gcd(a, b) == IF b # 0 THEN gcd(b, a % b) ELSE a

\* gcd_table::<N>(): [1; N] with entry b set to gcd(N, b) for every b < N.
gcd_table(N) ==
    LET table == [b \in 0..(N - 1) |-> 1]
    IN [b \in 0..(N - 1) |-> IF b < N THEN gcd(N, b) ELSE table[b]]

\* gcd_by_table::<N>(value): 0 when N is 0, else entry value % N of the
\* table; indexing outside the table panics.
gcd_by_table(N, value) ==
    IF N = 0 THEN [panicked |-> FALSE, ret |-> 0]
    ELSE LET table == gcd_table(N)
             i == value % N
         IN IF i \in DOMAIN table THEN [panicked |-> FALSE, ret |-> table[i]]
                                  ELSE [panicked |-> TRUE, ret |-> 0]

GcdByTable(N, value) ==
    /\ LET r == gcd_by_table(N, value)
       IN gcd_call' = [op |-> "gcd_by_table", N |-> N, value |-> value,
                       panicked |-> r.panicked, ret |-> r.ret]
    /\ UNCHANGED nonGcdVars

InitGcd ==
    /\ BackingDefault
    /\ upd = NoUpdate
    /\ WorldNew
    /\ CellWorldNew
    /\ FilterWorldNew
    /\ GraphIdle
    /\ CombinatorIdle
    /\ SchedIdle

NextGcd == \E N \in 0..MaxN, value \in 0..MaxGcdValue : GcdByTable(N, value)

SpecGcd == InitGcd /\ [][NextGcd]_vars

(* C26: gcd_by_table::<N>(value) does not panic and returns gcd(N, value),
   for every N, N = 0 included, and every value, values above N included. *)
C26_TableIsGcd ==
    gcd_call.op = "gcd_by_table" =>
        /\ ~gcd_call.panicked
        /\ gcd_call.ret = gcd(gcd_call.N, gcd_call.value)

-----------------------------------------------------------------------------
(* C11: the first get or iter of a run finds the index not refreshed at
   this_run and leaves it refreshed at this_run; every further get or iter
   of the run finds it refreshed and leaves the forward map, the reverse
   map, the last-refreshed tick and the reader's position in the removal
   events as they were. *)
C11_RefreshOncePerRun ==
    got.kind \in {"get", "iter"} =>
        /\ last_this_run = Some(this_run)
        /\ got.read.first => ~got.read.fresh
        /\ ~got.read.first =>
              /\ got.read.fresh
              /\ forward = got.read.before.forward
              /\ reverse = got.read.before.reverse
              /\ last_this_run = got.read.before.last_this_run
              /\ sys_cursor[running[1]] = got.read.before.cursor

\* A second read in a run whose first read had removal events and changes
\* to apply.
C11_Witness ==
    /\ got.kind \in {"get", "iter"} /\ ~got.read.first
    /\ forward # EmptyMap
    /\ sys_cursor[running[1]] > 0

(* C12: get(value) for a value whose key has no bucket returns no entity and
   leaves the forward map without a bucket for that key; a key that has a
   bucket returns entities. *)
C12_GetUnknownEmpty ==
    got.kind = "get" =>
        (got.entities = {} <=> index(got.value) \notin DOMAIN forward)

\* A get for a key without a bucket while another key has one.
C12_Witness ==
    /\ got.kind = "get" /\ got.entities = {}
    /\ forward # EmptyMap

(* C13: after a refresh every entity in the reverse map or in a forward
   bucket holds component T. *)
C13_NoLeak ==
    got.kind \in {"get", "iter"} =>
        /\ \A e \in DOMAIN reverse : comp[e] # None
        /\ \A k \in DOMAIN forward : \A e \in forward[k] : comp[e] # None

\* A refresh that removed an indexed entity whose T was removed, another
\* entity staying indexed.
C13_Witness ==
    /\ got.kind \in {"get", "iter"}
    /\ \E e \in DOMAIN got.read.before.reverse : comp[e] = None
    /\ reverse # EmptyMap

(* C28 as stated: an entity whose T was removed and inserted again before
   the refresh, the removal event still unread by the refreshing system, is
   in the index after the refresh, under the key of its current value. *)
C28_ReinsertedIsIndexed ==
    (got.kind \in {"get", "iter"} /\ ~got.read.fresh) =>
        \A i \in (got.read.before.cursor + 1)..Len(removed) :
            LET e == removed[i]
            IN comp[e] # None =>
                  /\ e \in DOMAIN reverse
                  /\ reverse[e] = index(comp[e][1].value)
                  /\ e \in get(forward, comp[e][1].value)

(* C30: a refresh gives one result whatever the order in which its pending
   removal events are visited and whatever the order in which its changed
   entities are visited: from the backing before the refresh, the same
   events and the same changed entities with their values, every pair of
   orders gives the forward map and the reverse map the refresh left, and
   the index is marked refreshed at this run. *)
C30_RefreshDeterministic ==
    (got.kind \in {"get", "iter"} /\ ~got.read.fresh) =>
        LET b == [forward |-> got.read.before.forward,
                  reverse |-> got.read.before.reverse, old |-> None]
            events == SubSeq(removed, got.read.before.cursor + 1, Len(removed))
            outcomes == RefreshOutcomes(b, events, ChangedEntities(running[1]))
        IN /\ {[forward |-> o.forward, reverse |-> o.reverse] : o \in outcomes}
                 = {[forward |-> forward, reverse |-> reverse]}
           /\ last_this_run = Some(this_run)

\* A refresh with two pending removal events of different entities and two
\* changed entities, one of which left a bucket the other is in.
C30_Witness ==
    /\ got.kind \in {"get", "iter"} /\ ~got.read.fresh
    /\ Len(removed) - got.read.before.cursor >= 2
    /\ removed[Len(removed)] # removed[Len(removed) - 1]
    /\ Cardinality(ChangedEntities(running[1])) >= 2
    /\ \E e1, e2 \in ChangedEntities(running[1]) :
          /\ e1 # e2
          /\ e1 \in DOMAIN got.read.before.reverse
          /\ e2 \in DOMAIN got.read.before.reverse
          /\ got.read.before.reverse[e1] # reverse[e1]
          /\ reverse[e2] = got.read.before.reverse[e1]

(* C2: every read of the Index returns, for every key, exactly the entities
   that hold T with that key at the time of the read.  (The world does not
   change while a system runs, so the state after the read still holds the
   components the read was made on.) *)
C2_ReadsAreFresh ==
    /\ got.kind = "get" => got.entities = Holders(index(got.value))
    /\ got.kind = "iter" =>
          /\ DOMAIN got.groups = HeldKeys
          /\ \A k \in DOMAIN got.groups : got.groups[k] = Holders(k)

-----------------------------------------------------------------------------
(* C1: the forward map and the reverse map are mutual inverses: every entity
   of the reverse map is a member of the bucket of its stored key and of no
   other bucket, and every member of a bucket has that bucket's key as its
   reverse entry. *)
C1_MutualInverse ==
    /\ \A e \in DOMAIN reverse :
          /\ reverse[e] \in DOMAIN forward
          /\ \A k \in DOMAIN forward : (e \in forward[k]) <=> (k = reverse[e])
    /\ \A k \in DOMAIN forward : \A e \in forward[k] :
          e \in DOMAIN reverse /\ reverse[e] = k

\* An entity was re-keyed into a bucket that already held another entity.
C1_Witness ==
    /\ upd.value # None /\ upd.old # None /\ upd.old # upd.value
    /\ Cardinality(forward[reverse[upd.entity]]) >= 2
    /\ Cardinality(DOMAIN reverse) = NumEntities

(* C27: an update that moves an entity from key K1 to a different key K2
   leaves the entity out of the bucket of K1, which is gone when the entity
   was its only member and otherwise keeps its other members; the bucket of
   K2 is what it was, if it was, and the entity; the reverse entry of the
   entity is K2; every other bucket and the reverse entry of every other
   entity are as they were. *)
C27_MoveBetweenBuckets ==
    (upd.value # None /\ upd.old # None /\ upd.old[1] # index(upd.value[1])) =>
        LET K1 == upd.old[1]
            K2 == index(upd.value[1])
            e == upd.entity
            was(k) == IF k \in DOMAIN upd.before THEN upd.before[k] ELSE {}
            is(k) == IF k \in DOMAIN forward THEN forward[k] ELSE {}
        IN /\ e \notin is(K1)
           /\ is(K1) = was(K1) \ {e}
           /\ was(K1) = {e} => K1 \notin DOMAIN forward
           /\ K2 \in DOMAIN forward
           /\ forward[K2] = was(K2) \cup {e}
           /\ reverse[e] = K2
           /\ \A k \in (DOMAIN forward \cup DOMAIN upd.before) \ {K1, K2} :
                 /\ k \in DOMAIN forward /\ k \in DOMAIN upd.before
                 /\ forward[k] = upd.before[k]
           /\ DOMAIN reverse = DOMAIN upd.rev_before
           /\ \A x \in DOMAIN reverse \ {e} : reverse[x] = upd.rev_before[x]

\* An entity moved out of a bucket that keeps another member, into a
\* bucket that already had a member.
C27_Witness ==
    /\ upd.value # None /\ upd.old # None /\ upd.old[1] # index(upd.value[1])
    /\ upd.old[1] \in DOMAIN forward
    /\ index(upd.value[1]) \in DOMAIN upd.before
    /\ Cardinality(forward[index(upd.value[1])]) >= 2

(* C29: an update of an entity with the key it already has leaves the
   forward map and the reverse map exactly as they were before the call,
   also when the entity is the only member of its bucket, and returns that
   key. *)
C29_SameKeyNoChange ==
    (upd.value # None /\ upd.old = Some(index(upd.value[1]))) =>
        /\ forward = upd.before
        /\ reverse = upd.rev_before
        /\ upd.entity \in forward[upd.old[1]]

\* An entity alone in its bucket, beside another bucket, was updated with
\* the key it already had.
C29_Witness ==
    /\ upd.value # None /\ upd.old = Some(index(upd.value[1]))
    /\ upd.before[upd.old[1]] = {upd.entity}
    /\ Cardinality(DOMAIN upd.before) >= 2
    /\ forward[upd.old[1]] = {upd.entity}

(* C10: no forward bucket is empty. *)
C10_NoEmptyBucket == \A k \in DOMAIN forward : forward[k] # {}

\* An update took the last entity out of a bucket (by removal or by
\* re-keying), and the bucket is gone.
C10_Witness ==
    /\ upd.old # None /\ upd.old # upd.value
    /\ upd.old[1] \in DOMAIN upd.before
    /\ upd.before[upd.old[1]] = {upd.entity}
    /\ upd.old[1] \notin DOMAIN forward

====
